---- MODULE Spec2Model ----
(***************************************************************************)
(* A model of stanford.mais: the Workgroup entity with its six live        *)
(* membership containers (workgroup/workgroup.py, workgroup/member.py)     *)
(* and the batch classifier validate() over the Account cache              *)
(* (account/validate.py, account/account.py, account/__init__.py).         *)
(*                                                                         *)
(* One Workgroup instance (name 'test:1') is followed from the moment the  *)
(* caller fetches it.  The server is the environment: every request is     *)
(* answered with a response drawn from Responses.                          *)
(***************************************************************************)
EXTENDS Integers, Sequences, FiniteSets, TLC

VARIABLES
    owner,        \* "none": not fetched yet; "live": the caller holds the Workgroup;
                  \* "gone": the instance was garbage-collected (weak references expired)
    wg,           \* the Workgroup instance's private fields (_deleted, _description, ...)
    identifiers,  \* _identifiers of each of the six WorkgroupMembershipContainer objects
    last,         \* the last call made by the caller: what was called, what it raised
                  \* ("ok": it returned) and how many requests it sent; for a search,
                  \* also the collection it returned
    added,        \* history: the pairs (container, value) of Tracked that an add() which
                  \* returned put in, with no discard()/remove() of that value called since
    wcache,       \* WorkgroupClient._cache['test:1']: 0 when there is no entry, else
                  \* the instance the weak reference was made to
    wgot,         \* history: the instance the last WorkgroupClient.get returned, with
                  \* no WorkgroupClient.clear_cache called since (0: none)
    wfrom,        \* history: the JSON the last _from_json of the instance read
    acache,       \* AccountClient._cache: identifier -> Account
    vresult,      \* the AccountValidationResults of the last validate() call
    aheld,        \* the Account the last AccountClient.get returned to the caller
    agot          \* history: identifier -> the instance AccountClient.get returned for
                  \* it, with no AccountClient.clear_cache called since

vars == <<owner, wg, identifiers, last, added, wcache, wgot, wfrom, acache, vresult, aheld, agot>>

wgvars == <<owner, wg, identifiers, added, wcache, wgot, wfrom>>
acctvars == <<acache, vresult, aheld, agot>>

----------------------------------------------------------------------------
(* Bounds *)

\* The instants datetime.now() returns are 1..MaxTime; a later call returns a later
\* instant until MaxTime is reached.
MaxTime == 2

\* The longest list of candidates passed to validate()
MaxCandidates == 2

\* The most only_*() calls stacked to make a view
MaxStack == 2

----------------------------------------------------------------------------
(* Membership containers *)

CollectionTypes == {"members", "administrators"}

\* container_type of the three container classes
ContainerTypes == {"USER", "WORKGROUP", "CERTIFICATE"}

Containers == CollectionTypes \X ContainerTypes

\* The identifier the caller adds to and removes from a container of each type.
Values(container_type) ==
    CASE container_type = "USER"        -> {"akkornel"}
      [] container_type = "WORKGROUP"   -> {"workgroup:test-owners"}
      [] container_type = "CERTIFICATE" -> {"cert5225"}

\* The 'type' tag of a member in the Workgroup JSON, per container.
MemberType(container_type) ==
    CASE container_type = "USER"        -> "PERSON"
      [] container_type = "WORKGROUP"   -> "WORKGROUP"
      [] container_type = "CERTIFICATE" -> "CERTIFICATE"

EmptyContainers == [c \in Containers |-> {}]

\* The pair whose add() calls the history variable follows.
Tracked == {<<<<"members", "USER">>, "akkornel">>}

----------------------------------------------------------------------------
(* Server responses *)

\* A date-string "01-Jan-2025" is held as its three '-'-separated pieces.
Json1 ==
    [ name |-> "test:1", description |-> "Test 1", filter |-> "NONE",
      privgroup |-> "TRUE", reusable |-> "TRUE", visibility |-> "STANFORD",
      lastUpdate |-> <<1, "Jan", 2025>>,
      members |-> {[type |-> "PERSON", id |-> "akkornel"]},
      administrators |-> {[type |-> "PERSON", id |-> "akkornel"],
                          [type |-> "WORKGROUP", id |-> "workgroup:test-owners"]} ]

\* The same workgroup made private, as a non-administrator sees it
\* (no description key, nothing in the lists).
Json2 ==
    [ name |-> "test:1", filter |-> "STAFF",
      privgroup |-> "FALSE", reusable |-> "FALSE", visibility |-> "PRIVATE",
      lastUpdate |-> <<2, "feb", 2025>>,
      members |-> {},
      administrators |-> {} ]

\* The same workgroup after somebody else changed it.
Json3 ==
    [ name |-> "test:1", description |-> "Changed", filter |-> "NONE",
      privgroup |-> "TRUE", reusable |-> "FALSE", visibility |-> "STANFORD",
      lastUpdate |-> <<2, "feb", 2025>>,
      members |-> {[type |-> "WORKGROUP", id |-> "workgroup:test-owners"],
                   [type |-> "CERTIFICATE", id |-> "cert5225"]},
      administrators |-> {[type |-> "CERTIFICATE", id |-> "cert5225"]} ]

\* A workgroup open to Stanford for which the server lists no administrator
\* (what the mock server answers for 'workgroup:workgroup-owners').
Json4 ==
    [ name |-> "workgroup:workgroup-owners",
      description |-> "Workgroup stem for testing", filter |-> "NONE",
      privgroup |-> "FALSE", reusable |-> "FALSE", visibility |-> "STANFORD",
      lastUpdate |-> <<1, "Jan", 2025>>,
      members |-> {},
      administrators |-> {} ]

WorkgroupJsons == {Json1, Json2, Json3}

\* Bodies a 400 answer comes with.  A body that is not JSON has no 'json' field.
InactiveBody == [json |-> [notification |-> "Workgroup is inactive"]]
Bodies400 ==
    { InactiveBody,
      [json |-> [notification |-> "Invalid request"]],
      [json |-> [code |-> "400"]],
      [text |-> "Bad Request"] }

ErrorBody == [text |-> "error"]

\* What the server answers a request on the workgroup itself
Responses ==
    [status : {200}, body : {[json |-> j] : j \in WorkgroupJsons}]
    \cup [status : {400}, body : Bodies400]
    \cup [status : {401, 403, 404, 409, 500, 521}, body : {ErrorBody}]

\* What the server answers a membership PUT or DELETE
MemberResponses ==
    [status : {200}, body : {[json |-> Json1]}]
    \cup [status : {400}, body : {InactiveBody, [text |-> "Bad Request"]}]
    \cup [status : {401, 403, 404, 409, 500, 521}, body : {ErrorBody}]

\* response.json() succeeds
IsJson(response) == "json" \in DOMAIN response.body

\* The test made under `case 400:` in get, create, _handle_refresh, get_privgroup
\* and delete: what is raised.  A JSON body without the key raises KeyError from
\* the subscript.
Raise400(response) ==
    IF ~IsJson(response) THEN "ChildProcessError"
    ELSE IF "notification" \notin DOMAIN response.body.json THEN "KeyError"
    ELSE IF response.body.json.notification = "Workgroup is inactive"
         THEN "WorkgroupDeleted"
         ELSE "ChildProcessError"

\* The answer is 400 and carries the 'Workgroup is inactive' marker.
HasInactiveMarker(response) ==
    /\ response.status = 400
    /\ IsJson(response)
    /\ "notification" \in DOMAIN response.body.json
    /\ response.body.json.notification = "Workgroup is inactive"

----------------------------------------------------------------------------
(* Workgroup: construction and refresh *)

\* str.upper() on the month names the server sends
Upper(month) ==
    CASE month = "Jan" -> "JAN"
      [] month = "feb" -> "FEB"
      [] OTHER -> month

month_to_number ==
    [m \in {"JAN", "FEB", "MAR", "APR", "MAY", "JUN",
            "JUL", "AUG", "SEP", "OCT", "NOV", "DEC"} |->
        CASE m = "JAN" -> 1 [] m = "FEB" -> 2 [] m = "MAR" -> 3 [] m = "APR" -> 4
          [] m = "MAY" -> 5 [] m = "JUN" -> 6 [] m = "JUL" -> 7 [] m = "AUG" -> 8
          [] m = "SEP" -> 9 [] m = "OCT" -> 10 [] m = "NOV" -> 11 [] m = "DEC" -> 12]

datestr_to_date(datestr) ==
    [year |-> datestr[3], month |-> month_to_number[Upper(datestr[2])], day |-> datestr[1]]

\* now_stanford.date(): every instant of the model falls on the same Stanford day.
StanfordDate(now) == [year |-> 2025, month |-> 6, day |-> 15]

\* No JSON read yet
NoJson == [name |-> ""]

\* The fields before __init__ has run (and after the instance was freed); ref is
\* the identity of the instance, what `is` compares.
NoWorkgroup ==
    [ name |-> "", deleted |-> FALSE, description |-> "", filter |-> "NONE",
      privgroup |-> FALSE,
      reusable |-> FALSE, visibility |-> "STANFORD",
      last_update |-> [year |-> 0, month |-> 0, day |-> 0],
      last_refresh |-> 0, can_see_membership |-> FALSE, ref |-> 0 ]

\* datetime.now(tz=utc) as the instance reads it
Now == IF wg.last_refresh < MaxTime THEN wg.last_refresh + 1 ELSE MaxTime

\* WorkgroupMembership.update_from_upstream for both memberships: the member
\* list of each role is split by type and every container's set is replaced.
update_from_upstream(members, administrators) ==
    [c \in Containers |->
        LET list == IF c[1] = "members" THEN members ELSE administrators
        IN  {m.id : m \in {n \in list : n.type = MemberType(c[2])}}]

\* len(self._administrators) over the three containers
LenAdministrators(ids) ==
    Cardinality(ids[<<"administrators", "USER">>])
    + Cardinality(ids[<<"administrators", "WORKGROUP">>])
    + Cardinality(ids[<<"administrators", "CERTIFICATE">>])

\* _from_json that adds the members of the response to the sets and takes none out
from_json_members_merging(response_json) ==
    [c \in Containers |->
        identifiers[c]
        \cup update_from_upstream(response_json.members, response_json.administrators)[c]]

\* Workgroup._from_json: the new container contents
from_json_members(response_json) ==
    update_from_upstream(response_json.members, response_json.administrators)

\* Workgroup._from_json: the new scalar fields
from_json(w, response_json, now) ==
    [ w EXCEPT
        !.description = IF "description" \in DOMAIN response_json
                        THEN response_json.description ELSE "",
        !.privgroup = (response_json.privgroup = "TRUE"),
        !.reusable = (response_json.reusable = "TRUE"),
        !.visibility = response_json.visibility,
        !.filter = response_json.filter,
        !.last_update = datestr_to_date(response_json.lastUpdate),
        !.can_see_membership = (LenAdministrators(from_json_members(response_json)) > 0),
        !.last_refresh = now ]

\* _mark_deleted without the assignment to _deleted
mark_deleted_unflagged(w, now) == [w EXCEPT !.last_refresh = now]

\* Workgroup._mark_deleted: the new scalar fields (the containers become empty)
mark_deleted(w, now) == [w EXCEPT !.last_refresh = now, !.deleted = TRUE]

\* _reset_last_update written as a fresh start of the instance's bookkeeping
reset_last_update_fresh(w, now) ==
    [w EXCEPT !.last_update = StanfordDate(now), !.deleted = FALSE]

\* _reset_last_update that takes the change as a sign that the membership is seen
reset_last_update_seeing(w, now) ==
    [w EXCEPT !.last_update = StanfordDate(now), !.can_see_membership = TRUE]

\* Workgroup._reset_last_update
reset_last_update(w, now) == [w EXCEPT !.last_update = StanfordDate(now)]

\* The record of a call
\* (status: the status code of the answer, 0 when no request was sent)
Called(op, outcome, sent, status) ==
    [op |-> op, outcome |-> outcome, sent |-> sent, status |-> status]

\* A call that raised (or returned) before anything was sent or changed
RaisedLocally(op, outcome) ==
    /\ last' = Called(op, outcome, 0, 0)
    /\ UNCHANGED <<owner, wg, identifiers, added, wcache, wgot, wfrom, acctvars>>

\* What the `match response.status_code` of _handle_refresh raises ("ok": nothing)
handle_refresh_outcome(response) ==
    CASE response.status = 200 -> "ok"
      [] response.status = 400 -> Raise400(response)
      [] response.status = 500 -> "ChildProcessError"
      [] response.status \in {401, 403} -> "PermissionError"
      [] response.status = 404 -> "KeyError"
      [] OTHER -> "NotImplementedError"

\* _handle_refresh that stamps the time of the refresh whatever the answer was
handle_refresh_stamping(op, response) ==
    LET outcome == handle_refresh_outcome(response) IN
    /\ wg' = IF response.status = 200 THEN from_json(wg, response.body.json, Now)
             ELSE IF outcome = "WorkgroupDeleted" THEN mark_deleted(wg, Now)
             ELSE [wg EXCEPT !.last_refresh = Now]
    /\ identifiers' = IF response.status = 200 THEN from_json_members(response.body.json)
                      ELSE IF outcome = "WorkgroupDeleted" THEN EmptyContainers
                      ELSE identifiers
    /\ wfrom' = IF response.status = 200 THEN response.body.json ELSE wfrom
    /\ last' = Called(op, outcome, 1, response.status)
    /\ UNCHANGED <<owner, added, wcache, wgot, acctvars>>

\* Workgroup._handle_refresh, reached from refresh() and from _update()
handle_refresh(op, response) ==
    LET outcome == handle_refresh_outcome(response) IN
    /\ wg' = IF response.status = 200 THEN from_json(wg, response.body.json, Now)
             ELSE IF outcome = "WorkgroupDeleted" THEN mark_deleted(wg, Now)
             ELSE wg
    /\ identifiers' = IF response.status = 200 THEN from_json_members(response.body.json)
                      ELSE IF outcome = "WorkgroupDeleted" THEN EmptyContainers
                      ELSE identifiers
    /\ wfrom' = IF response.status = 200 THEN response.body.json ELSE wfrom
    /\ last' = Called(op, outcome, 1, response.status)
    /\ UNCHANGED <<owner, added, wcache, wgot, acctvars>>

\* Workgroup.get: what the `match response.status_code` raises
get_outcome(response) ==
    CASE response.status = 200 -> "ok"
      [] response.status = 400 -> Raise400(response)
      [] response.status = 500 -> "ChildProcessError"
      [] response.status \in {401, 403} -> "PermissionError"
      [] response.status = 404 -> "KeyError"
      [] OTHER -> "NotImplementedError"

\* The identity of a Workgroup made now: it is not the instance the caller holds.
FreshWorkgroup == IF owner = "live" /\ wg.ref = 1 THEN 2 ELSE 1

\* get() that never looks in the cache
Get_uncached(responses) ==
    \E response \in responses :
        /\ last' = Called("get", get_outcome(response), 1, response.status)
        /\ IF response.status = 200
           THEN /\ owner' = "live"
                /\ wg' = [from_json(NoWorkgroup, response.body.json, Now)
                               EXCEPT !.ref = FreshWorkgroup,
                                       !.name = response.body.json.name]
                /\ identifiers' = from_json_members(response.body.json)
                /\ added' = {}
                /\ wcache' = FreshWorkgroup
                /\ wgot' = FreshWorkgroup
                /\ wfrom' = response.body.json
           ELSE /\ wcache' = 0
                /\ UNCHANGED <<owner, wg, identifiers, added, wgot, wfrom>>
        /\ UNCHANGED acctvars

\* WorkgroupClient.get / Workgroup.get of 'test:1': an instance the cache entry
\* still refers to is returned as it is; otherwise an expired entry is dropped,
\* one GET is sent, and on 200 Workgroup.__init__ runs and the new instance is
\* put in the cache.  The caller keeps the instance returned last.
Get(responses) ==
    IF owner = "live" /\ wcache = wg.ref
    THEN /\ last' = Called("get", "ok", 0, 0)
         /\ wgot' = wg.ref
         /\ UNCHANGED <<owner, wg, identifiers, added, wcache, wfrom, acctvars>>
    ELSE \E response \in responses :
         /\ last' = Called("get", get_outcome(response), 1, response.status)
         /\ IF response.status = 200
            THEN /\ owner' = "live"
                 /\ wg' = [from_json(NoWorkgroup, response.body.json, Now)
                                EXCEPT !.ref = FreshWorkgroup,
                                       !.name = response.body.json.name]
                 /\ identifiers' = from_json_members(response.body.json)
                 /\ added' = {}
                 /\ wcache' = FreshWorkgroup
                 /\ wgot' = FreshWorkgroup
                 /\ wfrom' = response.body.json
            ELSE /\ wcache' = 0
                 /\ UNCHANGED <<owner, wg, identifiers, added, wgot, wfrom>>
         /\ UNCHANGED acctvars

\* The longest description the setter and create() accept
MaxDescription == 255

\* Descriptions the caller passes to the setter, as sequences of code points:
\* empty, "Test", "e-acute", the euro sign (not Latin-1), a newline (not
\* printable) and one of MaxDescription + 1 characters.
DescriptionInputs ==
    { <<>>, <<84, 101, 115, 116>>, <<233>>, <<8364>>, <<10>>,
      [i \in 1..(MaxDescription + 1) |-> 120] }

\* value.encode('latin1') succeeds
EncodesLatin1(value) == \A i \in 1..Len(value) : value[i] < 256

\* str.isprintable(), on the Latin-1 range
IsPrintable(value) ==
    \A i \in 1..Len(value) :
        ~(value[i] < 32 \/ (value[i] >= 127 /\ value[i] <= 160) \/ value[i] = 173)

\* The local checks of the description setter: what they raise ("ok": nothing)
description_check(value) ==
    IF Len(value) = 0 THEN "IndexError"
    ELSE IF Len(value) > MaxDescription THEN "IndexError"
    ELSE IF ~EncodesLatin1(value) THEN "ValueError"
    ELSE IF ~IsPrintable(value) THEN "ValueError"
    ELSE "ok"

\* The longest name create() accepts
MaxName == 81

\* Names the caller passes to create(), as sequences of code points: 'test:1',
\* '', 'create:', ':1', 'Test:1', '-t:1', 't:_1', 't:1:1', and one of
\* MaxName + 1 characters that is otherwise well formed.
NameInputs ==
    { <<116, 101, 115, 116, 58, 49>>, <<>>, <<99, 114, 101, 97, 116, 101, 58>>,
      <<58, 49>>, <<84, 101, 115, 116, 58, 49>>, <<45, 116, 58, 49>>,
      <<116, 58, 95, 49>>, <<116, 58, 49, 58, 49>>,
      [i \in 1..(MaxName + 1) |-> IF i = 2 THEN 58 ELSE 49] }

\* [a-z0-9] and [a-z0-9_-]
IsLowerAlnum(c) == (c >= 97 /\ c <= 122) \/ (c >= 48 /\ c <= 57)
IsNameChar(c) == IsLowerAlnum(c) \/ c = 95 \/ c = 45

\* re.fullmatch(r'[a-z0-9][a-z0-9_-]*:[a-z0-9][a-z0-9_-]*', name) is not None
MatchesName(name) ==
    \E i \in 2..(Len(name) - 1) :
        /\ name[i] = 58
        /\ IsLowerAlnum(name[1]) /\ IsLowerAlnum(name[i + 1])
        /\ \A j \in (1..Len(name)) \ {i} : IsNameChar(name[j])

\* The local checks of create(): what they raise ("ok": nothing)
create_check(name, description) ==
    IF Len(name) > MaxName THEN "IndexError"
    ELSE IF ~MatchesName(name) THEN "ValueError"
    ELSE description_check(description)

\* A call of create() that passes the local checks: 'test:1', "Test"
ValidCreate == << <<116, 101, 115, 116, 58, 49>>, <<84, 101, 115, 116>> >>

\* What the server answers the POST of create()
CreateResponses ==
    Responses \cup [status : {201}, body : {[json |-> j] : j \in WorkgroupJsons}]

\* create() that tells a name in use and a name of a deleted workgroup apart no
\* further: both raise KeyError
create_outcome_conflated(response) ==
    CASE response.status = 400 ->
            IF Raise400(response) = "WorkgroupDeleted" THEN "KeyError"
            ELSE Raise400(response)
      [] response.status = 500 -> "ChildProcessError"
      [] response.status \in {401, 403} -> "PermissionError"
      [] response.status = 409 -> "KeyError"
      [] response.status # 201 -> "NotImplementedError"
      [] OTHER -> "ok"

\* Workgroup.create: what the `match response.status_code` raises
create_outcome(response) ==
    CASE response.status = 400 -> Raise400(response)
      [] response.status = 500 -> "ChildProcessError"
      [] response.status \in {401, 403} -> "PermissionError"
      [] response.status = 409 -> "KeyError"
      [] response.status # 201 -> "NotImplementedError"
      [] OTHER -> "ok"

\* What create() does with the answer to its POST
create_request(responses) ==
    \E response \in responses :
        /\ last' = Called("create", create_outcome(response), 1, response.status)
        /\ IF response.status = 201
           THEN /\ owner' = "live"
                /\ wg' = [from_json(NoWorkgroup, response.body.json, Now)
                               EXCEPT !.ref = FreshWorkgroup,
                                       !.name = response.body.json.name]
                /\ identifiers' = from_json_members(response.body.json)
                /\ added' = {}
                /\ wcache' = FreshWorkgroup
                /\ wgot' = FreshWorkgroup
                /\ wfrom' = response.body.json
           ELSE UNCHANGED <<owner, wg, identifiers, added, wcache, wgot, wfrom>>
        /\ UNCHANGED acctvars

\* create() that posts first and checks the name and description afterwards
Create_unchecked(name, description, responses) ==
    create_request(responses)

\* WorkgroupClient.create / Workgroup.create: the local checks, one POST, and on
\* 201 Workgroup.__init__ runs and the new instance is put in the cache.  The
\* caller keeps the instance returned.
Create(name, description, responses) ==
    IF create_check(name, description) # "ok"
    THEN RaisedLocally("create", create_check(name, description))
    ELSE create_request(responses)

\* `except KeyError` catches what was raised: WorkgroupDeleted is a subclass of
\* KeyError
IsKeyError(outcome) == outcome \in {"KeyError", "WorkgroupDeleted"}

\* __contains__ that catches a KeyError and no subclass of it
workgroup_contains_exact(outcome) ==
    CASE outcome = "ok" -> "True"
      [] outcome = "KeyError" -> "False"
      [] OTHER -> outcome

\* WorkgroupClient.__contains__, given how its get() ended: True, False, or what
\* get() raised that is not a KeyError
workgroup_contains(outcome) ==
    CASE outcome = "ok" -> "True"
      [] IsKeyError(outcome) -> "False"
      [] OTHER -> outcome

\* `'test:1' in client`: get() as above, but the caller keeps nothing: a
\* Workgroup made for the test is freed at once and its cache entry is left
\* expired, and the instance the caller holds is not touched.
WorkgroupContains(responses) ==
    /\ IF owner = "live" /\ wcache = wg.ref
       THEN /\ last' = Called("workgroup_in", "True", 0, 0)
            /\ wcache' = wcache
       ELSE \E response \in responses :
            /\ last' = Called("workgroup_in", workgroup_contains(get_outcome(response)),
                              1, response.status)
            /\ wcache' = IF response.status = 200 THEN FreshWorkgroup ELSE 0
    /\ UNCHANGED <<owner, wg, identifiers, added, wgot, wfrom, acctvars>>

\* WorkgroupClient.clear_cache
WorkgroupClearCache ==
    /\ wcache' = 0
    /\ wgot' = 0
    /\ last' = Called("workgroup_clear_cache", "ok", 0, 0)
    /\ UNCHANGED <<owner, wg, identifiers, added, wfrom, acctvars>>

\* refresh() without the test of _deleted
Refresh_unchecked(responses) ==
    /\ owner = "live"
    /\ \E response \in responses : handle_refresh("refresh", response)

\* Workgroup.refresh
Refresh(responses) ==
    /\ owner = "live"
    /\ IF wg.deleted
       THEN RaisedLocally("refresh", "EOFError")
       ELSE \E response \in responses : handle_refresh("refresh", response)

----------------------------------------------------------------------------
(* Workgroup: property setters, delete, get_privgroup *)

WorkgroupFilterNames ==
    { "NONE", "ACADEMIC_ADMINISTRATIVE", "STUDENT", "FACULTY", "STAFF", "FACULTY_STAFF",
      "FACULTY_STUDENT", "STAFF_STUDENT", "FACULTY_STAFF_STUDENT" }

WorkgroupVisibilityNames == {"STANFORD", "PRIVATE"}

\* A setter's argument: an enum member, a str or a bool
FilterInputs ==
    {[type |-> "enum", v |-> "STAFF"], [type |-> "str", v |-> "NONE"],
     [type |-> "str", v |-> "bogus"]}
VisibilityInputs ==
    {[type |-> "enum", v |-> "PRIVATE"], [type |-> "str", v |-> "STANFORD"],
     [type |-> "str", v |-> "bogus"]}
BoolInputs == [type : {"bool"}, v : BOOLEAN] \cup {[type |-> "str", v |-> "yes"]}

\* WorkgroupFilter.from_str / WorkgroupVisibility.from_str, run on a str argument
from_str_check(names, value) ==
    IF value.type = "enum" \/ value.v \in names THEN "ok" ELSE "ValueError"

\* isinstance(value, bool)
bool_check(value) == IF value.type = "bool" THEN "ok" ELSE "TypeError"

\* Workgroup._update: one PUT of the changed property, handled as a refresh
update(op, responses) ==
    IF wg.deleted
    THEN RaisedLocally(op, "EOFError")
    ELSE \E response \in responses : handle_refresh(op, response)

\* A property setter: the deleted test, the local check of the value, _update
Setter(op, check, responses) ==
    /\ owner = "live"
    /\ IF wg.deleted THEN RaisedLocally(op, "EOFError")
       ELSE IF check # "ok" THEN RaisedLocally(op, check)
       ELSE update(op, responses)

SetDescription(value, responses) ==
    Setter("set_description", description_check(value), responses)

SetFilter(value, responses) ==
    Setter("set_filter", from_str_check(WorkgroupFilterNames, value), responses)

SetPrivgroup(value, responses) ==
    Setter("set_privgroup", bool_check(value), responses)

SetReusable(value, responses) ==
    Setter("set_reusable", bool_check(value), responses)

SetVisibility(value, responses) ==
    Setter("set_visibility", from_str_check(WorkgroupVisibilityNames, value), responses)

SetterOps ==
    {"set_description", "set_filter", "set_privgroup", "set_reusable", "set_visibility"}

\* Workgroup.delete: what the `match response.status_code` raises
delete_outcome(response) ==
    CASE response.status = 200 -> "ok"
      [] response.status = 400 -> Raise400(response)
      [] response.status = 500 -> "ChildProcessError"
      [] response.status \in {401, 403} -> "PermissionError"
      [] response.status = 404 -> "KeyError"
      [] OTHER -> "NotImplementedError"

\* delete() that marks the instance deleted and leaves the memberships as they
\* were
Delete_keeping(responses) ==
    /\ owner = "live"
    /\ IF wg.deleted
       THEN RaisedLocally("delete", "EOFError")
       ELSE \E response \in responses :
            LET outcome == delete_outcome(response)
                marked == outcome \in {"ok", "WorkgroupDeleted"}
            IN  /\ wg' = IF marked THEN mark_deleted(wg, Now) ELSE wg
                /\ last' = Called("delete", outcome, 1, response.status)
                /\ UNCHANGED <<owner, identifiers, added, wcache, wgot, wfrom, acctvars>>

\* Workgroup.delete
Delete(responses) ==
    /\ owner = "live"
    /\ IF wg.deleted
       THEN RaisedLocally("delete", "EOFError")
       ELSE \E response \in responses :
            LET outcome == delete_outcome(response)
                marked == outcome \in {"ok", "WorkgroupDeleted"}
            IN  /\ wg' = IF marked THEN mark_deleted(wg, Now) ELSE wg
                /\ identifiers' = IF marked THEN EmptyContainers ELSE identifiers
                /\ last' = Called("delete", outcome, 1, response.status)
                /\ UNCHANGED <<owner, added, wcache, wgot, wfrom, acctvars>>

\* Workgroup.get_privgroup: what the `match response.status_code` raises
\* (there is no `case 404`)
get_privgroup_outcome(response) ==
    CASE response.status = 200 -> "ok"
      [] response.status = 400 -> Raise400(response)
      [] response.status = 500 -> "ChildProcessError"
      [] response.status \in {401, 403} -> "PermissionError"
      [] OTHER -> "NotImplementedError"

\* get_privgroup() that asks the server whatever can_see_membership says
GetPrivgroup_eager(responses) ==
    /\ owner = "live"
    /\ IF wg.deleted
       THEN RaisedLocally("get_privgroup", "EOFError")
       ELSE \E response \in responses :
            LET outcome == get_privgroup_outcome(response)
                marked == outcome = "WorkgroupDeleted"
            IN  /\ wg' = IF marked THEN mark_deleted(wg, Now) ELSE wg
                /\ identifiers' = IF marked THEN EmptyContainers ELSE identifiers
                /\ last' = Called("get_privgroup", outcome, 1, response.status)
                /\ UNCHANGED <<owner, added, wcache, wgot, wfrom, acctvars>>

\* Workgroup.get_privgroup
GetPrivgroup(responses) ==
    /\ owner = "live"
    /\ IF wg.deleted
       THEN RaisedLocally("get_privgroup", "EOFError")
       ELSE IF ~wg.can_see_membership
       THEN RaisedLocally("get_privgroup", "PermissionError")
       ELSE \E response \in responses :
            LET outcome == get_privgroup_outcome(response)
                marked == outcome = "WorkgroupDeleted"
            IN  /\ wg' = IF marked THEN mark_deleted(wg, Now) ELSE wg
                /\ identifiers' = IF marked THEN EmptyContainers ELSE identifiers
                /\ last' = Called("get_privgroup", outcome, 1, response.status)
                /\ UNCHANGED <<owner, added, wcache, wgot, wfrom, acctvars>>

\* The properties of a Workgroup that are read
Accessors ==
    { "client", "deleted", "name", "last_refresh", "description", "last_update",
      "filter", "privgroup", "reusable", "visibility", "can_see_membership",
      "members", "administrators" }

\* The getters with the deleted test left out of last_update
Getter_unguarded(w, accessor) ==
    IF accessor \in {"client", "deleted", "name", "last_refresh", "last_update"} THEN "ok"
    ELSE IF w.deleted THEN "EOFError" ELSE "ok"

\* What reading a property raises ("ok": the getter returns)
Getter(w, accessor) ==
    IF accessor \in {"client", "deleted", "name", "last_refresh"} THEN "ok"
    ELSE IF w.deleted THEN "EOFError" ELSE "ok"

\* The caller reads one property of the instance.
Read(accessor) ==
    /\ owner = "live"
    /\ RaisedLocally(accessor, Getter(wg, accessor))

----------------------------------------------------------------------------
(* Membership containers: add, discard, remove *)

\* WorkgroupMembershipContainer.add: what the status tests raise
add_outcome(response) ==
    IF response.status \in {400, 500} THEN "ChildProcessError"
    ELSE IF response.status \in {401, 403} THEN "PermissionError"
    ELSE IF response.status = 404 THEN "ValueError"
    ELSE "ok"

\* add() without the quick test for a value that is already there
Add_unchecked(container, value, responses) ==
    /\ owner = "live"
    /\ \E response \in responses :
        LET outcome == add_outcome(response) IN
        /\ last' = Called("add", outcome, 1, response.status)
        /\ IF outcome = "ok"
           THEN /\ wg' = reset_last_update(wg, Now)
                /\ identifiers' = [identifiers EXCEPT ![container] = @ \cup {value}]
                /\ added' = added \cup ({<<container, value>>} \cap Tracked)
           ELSE UNCHANGED <<wg, identifiers, added>>
        /\ UNCHANGED <<owner, wcache, wgot, wfrom, acctvars>>

\* add() without the test of the resolved back-reference
Add_unresolved(container, value, responses) ==
    /\ owner # "none"
    /\ IF value \in identifiers[container]
       THEN RaisedLocally("add", "KeyError")
       ELSE \E response \in responses :
            LET outcome == add_outcome(response) IN
            /\ last' = Called("add", outcome, 1, response.status)
            /\ IF outcome = "ok"
               THEN /\ wg' = reset_last_update(wg, Now)
                    /\ identifiers' = [identifiers EXCEPT ![container] = @ \cup {value}]
                    /\ added' = added \cup ({<<container, value>>} \cap Tracked)
               ELSE UNCHANGED <<wg, identifiers, added>>
            /\ UNCHANGED <<owner, wcache, wgot, wfrom, acctvars>>

\* WorkgroupMembershipContainer.add
Add(container, value, responses) ==
    /\ owner # "none"
    /\ IF value \in identifiers[container]
       THEN RaisedLocally("add", "KeyError")
       ELSE IF owner # "live"
       THEN RaisedLocally("add", "EOFError")
       ELSE \E response \in responses :
            LET outcome == add_outcome(response) IN
            /\ last' = Called("add", outcome, 1, response.status)
            /\ IF outcome = "ok"
               THEN /\ wg' = reset_last_update(wg, Now)
                    /\ identifiers' = [identifiers EXCEPT ![container] = @ \cup {value}]
                    /\ added' = added \cup ({<<container, value>>} \cap Tracked)
               ELSE UNCHANGED <<wg, identifiers, added>>
            /\ UNCHANGED <<owner, wcache, wgot, wfrom, acctvars>>

\* WorkgroupMembershipContainer.discard: what the status tests raise
discard_outcome(response) ==
    IF response.status \in {400, 500} THEN "ChildProcessError"
    ELSE IF response.status \in {401, 403} THEN "PermissionError"
    ELSE IF response.status = 404 THEN "KeyError"
    ELSE "ok"

\* discard() without the quick test for a value that is not there
discard_unchecked(op, container, value, responses) ==
    /\ added' = added \ {<<container, value>>}
    /\ owner = "live"
    /\ \E response \in responses :
        LET outcome == discard_outcome(response) IN
        /\ last' = Called(op, outcome, 1, response.status)
        /\ IF outcome = "ok"
           THEN /\ wg' = reset_last_update(wg, Now)
                /\ identifiers' = [identifiers EXCEPT ![container] = @ \ {value}]
           ELSE UNCHANGED <<wg, identifiers>>
        /\ UNCHANGED <<owner, wcache, wgot, wfrom, acctvars>>

\* WorkgroupMembershipContainer.discard, called as `op` (discard itself, or from
\* MutableSet.remove)
discard(op, container, value, responses) ==
    /\ added' = added \ {<<container, value>>}
    /\ IF value \notin identifiers[container]
       THEN /\ last' = Called(op, "KeyError", 0, 0)
            /\ UNCHANGED <<owner, wg, identifiers, wcache, wgot, wfrom, acctvars>>
       ELSE IF owner # "live"
       THEN /\ last' = Called(op, "EOFError", 0, 0)
            /\ UNCHANGED <<owner, wg, identifiers, wcache, wgot, wfrom, acctvars>>
       ELSE \E response \in responses :
            LET outcome == discard_outcome(response) IN
            /\ last' = Called(op, outcome, 1, response.status)
            /\ IF outcome = "ok"
               THEN /\ wg' = reset_last_update(wg, Now)
                    /\ identifiers' = [identifiers EXCEPT ![container] = @ \ {value}]
               ELSE UNCHANGED <<wg, identifiers>>
            /\ UNCHANGED <<owner, wcache, wgot, wfrom, acctvars>>

Discard(container, value, responses) ==
    /\ owner # "none"
    /\ discard("discard", container, value, responses)

\* MutableSet.remove, which __delitem__ calls too: KeyError when the value is
\* not in the set, else discard.
Remove(container, value, responses) ==
    /\ owner # "none"
    /\ IF value \notin identifiers[container]
       THEN /\ last' = Called("remove", "KeyError", 0, 0)
            /\ added' = added \ {<<container, value>>}
            /\ UNCHANGED <<owner, wg, identifiers, wcache, wgot, wfrom, acctvars>>
       ELSE discard("remove", container, value, responses)

\* `del workgroup` with a cache that holds the instance itself: an instance in
\* the cache lives on.
DropWorkgroup_cached ==
    /\ owner = "live"
    /\ owner' = IF wcache = wg.ref THEN "live" ELSE "gone"
    /\ wg' = IF wcache = wg.ref THEN wg ELSE NoWorkgroup
    /\ last' = Called("del", "ok", 0, 0)
    /\ UNCHANGED <<identifiers, added, wcache, wgot, wfrom, acctvars>>

\* `del workgroup`: the cache refers to the instance weakly, so nothing keeps it
\* any more; CPython frees it at once, the cache entry is left expired and the
\* containers the caller kept lose their owner.
DropWorkgroup ==
    /\ owner = "live"
    /\ owner' = "gone"
    /\ wg' = NoWorkgroup
    /\ last' = Called("del", "ok", 0, 0)
    /\ UNCHANGED <<identifiers, added, wcache, wgot, wfrom, acctvars>>

----------------------------------------------------------------------------
(* WorkgroupClient: the searches *)

\* A search string that passes the local tests
ValidSearch == <<116, 58, 42>>

\* Search strings, as sequences of code points: '', '*', 't:*', 'bad'
SearchInputs == { <<>>, <<42>>, <<116, 58, 42>>, <<98, 97, 100>> }

\* The entries of a search answer (workgroup_test1_lite of the mock server, and
\* one without a description)
Lite1 == [name |-> "test:1", description |-> "Test 1", lastUpdate |-> <<1, "Jan", 2025>>]
Lite2 == [name |-> "test:2", lastUpdate |-> <<2, "feb", 2025>>]

\* The JSON bodies of the answers to a search by name and to a search by target
NameSearchJsons == { [results |-> {}], [results |-> {Lite1, Lite2}] }
TargetSearchJsons ==
    { [members |-> {}, administrators |-> {}],
      [members |-> {Lite1}, administrators |-> {Lite1, Lite2}] }

\* What the server answers a search: results, the errors the client knows, and
\* other statuses with a text body, a JSON error body or a body of results.
SearchResponses(jsons) ==
    [status : {200}, body : {[json |-> j] : j \in jsons}]
    \cup [status : {400}, body : {[json |-> [notification |-> "Invalid request"]]}]
    \cup [status : {401, 403, 500}, body : {ErrorBody}]
    \cup [status : {404, 521},
          body : {ErrorBody, [json |-> [notification |-> "Not found"]]}
                 \cup {[json |-> j] : j \in jsons}]

\* A call of a search that returned or raised after its request
Searched(op, outcome, status, results) ==
    [op |-> op, outcome |-> outcome, sent |-> 1, status |-> status, results |-> results]

\* PartialWorkgroup(name=..., description=..., last_update=...) of one entry
partial_workgroup(result) ==
    [ name |-> result.name,
      description |-> IF "description" \in DOMAIN result THEN result.description ELSE "",
      last_update |-> datestr_to_date(result.lastUpdate) ]

\* What a search does with the answer: the two status tests, then response.json()
\* and the subscripts with `keys`.
search_outcome(response, keys) ==
    CASE response.status \in {400, 500} -> "ChildProcessError"
      [] response.status \in {401, 403} -> "PermissionError"
      [] ~IsJson(response) -> "JSONDecodeError"
      [] ~(keys \subseteq DOMAIN response.body.json) -> "KeyError"
      [] OTHER -> "ok"

\* WorkgroupClient.search_by_name
SearchByName(search, responses) ==
    IF Len(search) = 0 \/ search[1] = 42
    THEN RaisedLocally("search_by_name", "ValueError")
    ELSE \E response \in responses :
         LET outcome == search_outcome(response, {"results"}) IN
         /\ last' = Searched("search_by_name", outcome, response.status,
                             IF outcome = "ok"
                             THEN {partial_workgroup(result) :
                                     result \in response.body.json.results}
                             ELSE {})
         /\ UNCHANGED <<wgvars, acctvars>>

\* WorkgroupClient._search_by_target
search_by_target(op, target, responses) ==
    IF Len(target) = 0
    THEN RaisedLocally(op, "ValueError")
    ELSE \E response \in responses :
         LET outcome == search_outcome(response, {"members", "administrators"}) IN
         /\ last' = Searched(op, outcome, response.status,
                             IF outcome = "ok"
                             THEN [ is_member |->
                                      {partial_workgroup(result) :
                                         result \in response.body.json.members},
                                    is_administrator |->
                                      {partial_workgroup(result) :
                                         result \in response.body.json.administrators} ]
                             ELSE {})
         /\ UNCHANGED <<wgvars, acctvars>>

\* WorkgroupClient.search_by_user, search_by_certificate, search_by_workgroup
SearchByUser(sunetid, responses) == search_by_target("search_by_user", sunetid, responses)

SearchByCertificate(certificate, responses) ==
    search_by_target("search_by_certificate", certificate, responses)

SearchByWorkgroup(workgroup, responses) ==
    search_by_target("search_by_workgroup", workgroup, responses)

----------------------------------------------------------------------------
(* Accounts: the cache, the filtered views, validate *)

\* An identifier is a string, held as the sequence of its pieces: <<"fullprsn">>,
\* <<"fullprsn", "@stanford.edu">>.  NonAscii is the one piece that does not
\* encode as ASCII.
Suffix == "@stanford.edu"
NonAscii == "(e-acute)"

\* The candidates a caller passes, in a fixed order
Candidates ==
    << <<"fullprsn">>, <<"fullprsn", Suffix>>, <<"afilbase">>, <<"formerpsn">>,
       <<"functional">>, <<"nobody">>, <<"ren", NonAscii>> >>

\* The accounts the server knows: what the JSON of each one says
Directory ==
    ( <<"fullprsn">>   :> [id |-> <<"fullprsn">>, type |-> "self",
                           status |-> "active", leland |-> "active"] ) @@
    ( <<"afilbase">>   :> [id |-> <<"afilbase">>, type |-> "self",
                           status |-> "active", leland |-> "none"] ) @@
    ( <<"formerpsn">>  :> [id |-> <<"formerpsn">>, type |-> "self",
                           status |-> "inactive", leland |-> "inactive"] ) @@
    ( <<"functional">> :> [id |-> <<"functional">>, type |-> "functional",
                           status |-> "active", leland |-> "none"] )

\* A fault is the identifier whose lookup the server answers with an error
\* status; NoFault: the server answers every lookup from its directory.
\* TimedOut stands for no answer in time: session.get raises requests.Timeout.
NoFault == [id |-> <<>>, status |-> 0]
TimedOut == 0
Faults(ids) == {NoFault} \cup [id : ids, status : {401, 500, TimedOut}]

\* The server's answer to GET account/<sunetid>
AccountAnswer(sunetid, fault) ==
    IF fault # NoFault /\ fault.id = sunetid THEN [status |-> fault.status]
    ELSE IF sunetid \in DOMAIN Directory
         THEN [status |-> 200, json |-> Directory[sunetid]]
         ELSE [status |-> 404]

\* sunetid.encode('ascii') succeeds
IsAscii(sunetid) == \A i \in 1..Len(sunetid) : sunetid[i] # NonAscii

\* sunetid.endswith('@stanford.edu') and sunetid.removesuffix('@stanford.edu')
EndsWithSuffix(sunetid) == Len(sunetid) > 0 /\ sunetid[Len(sunetid)] = Suffix
RemoveSuffix(sunetid) == SubSeq(sunetid, 1, Len(sunetid) - 1)

NoAccount ==
    [sunetid |-> <<>>, is_person |-> FALSE, is_active |-> FALSE, is_full |-> FALSE,
     ref |-> 0]

\* The identity of an Account made now for `sunetid`: ref tells it from the
\* instances of the same account that the cache or the caller holds.
FreshAccount(cache, sunetid) ==
    LET used == {cache[k].ref : k \in {h \in DOMAIN cache : cache[h].sunetid = sunetid}}
                \cup (IF aheld.sunetid = sunetid THEN {aheld.ref} ELSE {})
    IN  CHOOSE n \in 1..(Cardinality(used) + 1) :
            n \notin used /\ \A m \in 1..(n - 1) : m \in used

\* What a lookup hands back: what it raised ("ok": the account is returned), the
\* account, the cache afterwards, the requests sent and the last status seen
Looked(outcome, account, cache, sent, status) ==
    [outcome |-> outcome, account |-> account, cache |-> cache,
     sent |-> sent, status |-> status]

\* Account.get
RECURSIVE Account_get(_, _, _)
Account_get(cache, sunetid, fault) ==
    IF sunetid \in DOMAIN cache
    THEN Looked("ok", cache[sunetid], cache, 0, 0)
    ELSE IF ~IsAscii(sunetid)
    THEN Looked("ValueError", NoAccount, cache, 0, 0)
    ELSE IF EndsWithSuffix(sunetid)
    THEN Account_get(cache, RemoveSuffix(sunetid), fault)
    ELSE LET response == AccountAnswer(sunetid, fault)
             raised(outcome) == Looked(outcome, NoAccount, cache, 1, response.status)
         IN  IF response.status = TimedOut THEN raised("Timeout")
             ELSE IF response.status \in {400, 500} THEN raised("ChildProcessError")
             ELSE IF response.status \in {401, 403} THEN raised("PermissionError")
             ELSE IF response.status = 404 THEN raised("KeyError")
             ELSE IF response.json.type \notin {"self", "functional"}
             THEN raised("NotImplementedError")
             ELSE LET result ==
                        [ sunetid |-> response.json.id,
                          is_person |-> (response.json.type = "self"),
                          is_active |-> (response.json.status = "active"),
                          is_full |-> (response.json.leland = "active"),
                          ref |-> FreshAccount(cache, response.json.id) ]
                  IN  Looked("ok", result, (sunetid :> result) @@ cache,
                             1, response.status)

\* The filters of the only_*() views
FilterNames == {"only_active", "only_inactive", "only_people", "only_functional"}

\* new_filter of each only_*() method, applied to an account
Passes(filter, candidate) ==
    CASE filter = "only_active"     -> candidate.is_active
      [] filter = "only_inactive"   -> ~candidate.is_active
      [] filter = "only_people"     -> candidate.is_person
      [] filter = "only_functional" -> ~candidate.is_person

\* only_*() that returns a client with the new filter alone
only_replacing(filters, new_filter) == {new_filter}

\* only_active(), only_inactive(), only_people(), only_functional() on a client
\* whose _filters is `filters`: the _filters of the client they return, which is
\* given the dict of the first client as its _cache
only(filters, new_filter) == filters \cup {new_filter}

\* get() on a view that was given a dict of its own, which is empty
AccountClient_get_private(filters, cache, sunetid, fault) ==
    LET got == Account_get(IF filters = {} THEN cache ELSE <<>>, sunetid, fault) IN
    IF got.outcome = "ok" /\ \E f \in filters : ~Passes(f, got.account)
    THEN [got EXCEPT !.outcome = "KeyError", !.account = NoAccount,
                     !.cache = IF filters = {} THEN @ ELSE cache]
    ELSE [got EXCEPT !.cache = IF filters = {} THEN @ ELSE cache]

\* get() that raises only when every filter of the view rejects the account
AccountClient_get_lenient(filters, cache, sunetid, fault) ==
    LET got == Account_get(cache, sunetid, fault) IN
    IF got.outcome = "ok" /\ filters # {} /\ \A f \in filters : ~Passes(f, got.account)
    THEN [got EXCEPT !.outcome = "KeyError", !.account = NoAccount]
    ELSE got

\* get() that takes an account its filters reject out of the cache again
AccountClient_get_forgetting(filters, cache, sunetid, fault) ==
    LET got == Account_get(cache, sunetid, fault) IN
    IF got.outcome = "ok" /\ \E f \in filters : ~Passes(f, got.account)
    THEN [got EXCEPT !.outcome = "KeyError", !.account = NoAccount, !.cache = cache]
    ELSE got

\* AccountClient.get on a client whose _filters is `filters`
AccountClient_get(filters, cache, sunetid, fault) ==
    LET got == Account_get(cache, sunetid, fault) IN
    IF got.outcome = "ok" /\ \E f \in filters : ~Passes(f, got.account)
    THEN [got EXCEPT !.outcome = "KeyError", !.account = NoAccount]
    ELSE got

\* set(raw)
Range(raw) == {raw[i] : i \in 1..Len(raw)}

\* The orders in which a `for` loop may walk a set
Orders(set) ==
    {order \in [1..Cardinality(set) -> set] : Range(order) = set}

\* raw=None, held as a sequence that is none of the strings a caller passes
None == <<"None">>

NoResults ==
    [outcome |-> "none", raw |-> None, raw_set |-> {}, full |-> {}, base |-> {},
     inactive |-> {}, unknown |-> {}]

\* The element of a set of one element
The(set) == CHOOSE x \in set : TRUE

\* One pass of the loop with the candidate as it was passed put in the bucket
validate_step_raw(st, sunetid, got) ==
    LET seen == [st EXCEPT !.cache = got.cache,
                           !.sent = @ + got.sent,
                           !.status = IF got.sent > 0 THEN got.status ELSE @]
    IN  IF got.outcome \in {"ValueError", "IndexError", "KeyError"}
        THEN [seen EXCEPT !.unknown = @ \cup {sunetid}]
        ELSE IF got.outcome # "ok"
        THEN [seen EXCEPT !.outcome = got.outcome]
        ELSE IF ~got.account.is_active
        THEN [seen EXCEPT !.inactive = @ \cup {sunetid}]
        ELSE IF got.account.is_full
        THEN [seen EXCEPT !.full = @ \cup {sunetid}]
        ELSE [seen EXCEPT !.base = @ \cup {sunetid}]

\* One pass of the loop with a bare `except`: whatever the lookup raises, the
\* candidate goes to unknown
validate_step_swallow(st, sunetid, got) ==
    LET seen == [st EXCEPT !.cache = got.cache,
                           !.sent = @ + got.sent,
                           !.status = IF got.sent > 0 THEN got.status ELSE @]
    IN  IF got.outcome # "ok"
        THEN [seen EXCEPT !.unknown = @ \cup {sunetid}]
        ELSE IF ~got.account.is_active
        THEN [seen EXCEPT !.inactive = @ \cup {got.account.sunetid}]
        ELSE IF got.account.is_full
        THEN [seen EXCEPT !.full = @ \cup {got.account.sunetid}]
        ELSE [seen EXCEPT !.base = @ \cup {got.account.sunetid}]

\* One pass of the loop with the lookup made a second time when the server
\* fails or does not answer
validate_step_retrying(st, sunetid, got) ==
    LET seen == [st EXCEPT !.cache = got.cache,
                           !.sent = @ + got.sent
                                      + IF got.outcome \in {"ChildProcessError", "Timeout"}
                                        THEN got.sent ELSE 0,
                           !.status = IF got.sent > 0 THEN got.status ELSE @]
    IN  IF got.outcome \in {"ValueError", "IndexError", "KeyError"}
        THEN [seen EXCEPT !.unknown = @ \cup {sunetid}]
        ELSE IF got.outcome # "ok"
        THEN [seen EXCEPT !.outcome = got.outcome]
        ELSE IF ~got.account.is_active
        THEN [seen EXCEPT !.inactive = @ \cup {got.account.sunetid}]
        ELSE IF got.account.is_full
        THEN [seen EXCEPT !.full = @ \cup {got.account.sunetid}]
        ELSE [seen EXCEPT !.base = @ \cup {got.account.sunetid}]

\* One pass of the loop of _validate, for the candidate `sunetid` whose lookup
\* ended as `got`: `st` holds the four buckets, the cache, the requests sent so
\* far and what was raised.
validate_step(st, sunetid, got) ==
    LET seen == [st EXCEPT !.cache = got.cache,
                           !.sent = @ + got.sent,
                           !.status = IF got.sent > 0 THEN got.status ELSE @]
    IN  IF got.outcome \in {"ValueError", "IndexError", "KeyError"}
        THEN [seen EXCEPT !.unknown = @ \cup {sunetid}]
        ELSE IF got.outcome # "ok"
        THEN [seen EXCEPT !.outcome = got.outcome]
        ELSE IF ~got.account.is_active
        THEN [seen EXCEPT !.inactive = @ \cup {got.account.sunetid}]
        ELSE IF got.account.is_full
        THEN [seen EXCEPT !.full = @ \cup {got.account.sunetid}]
        ELSE [seen EXCEPT !.base = @ \cup {got.account.sunetid}]

\* The loop of _validate with `break` where the code has `continue`: it ends at
\* the first candidate whose lookup raises an error that is caught.
RECURSIVE validate_loop_break(_, _, _)
validate_loop_break(order, st, fault) ==
    IF order = <<>> \/ st.outcome # "ok" \/ st.unknown # {} THEN st
    ELSE The({ validate_loop_break(Tail(order), next, fault) :
                next \in { validate_step(st, Head(order), got) :
                    got \in { AccountClient_get(only({}, "only_people"), st.cache,
                                                Head(order), fault) } } })

\* The loop of _validate over the candidates still to visit, through the
\* people-only view; it ends at the first lookup error that is not caught.
RECURSIVE validate_loop(_, _, _)
validate_loop(order, st, fault) ==
    IF order = <<>> \/ st.outcome # "ok" THEN st
    ELSE The({ validate_loop(Tail(order), next, fault) :
                next \in { validate_step(st, Head(order), got) :
                    got \in { AccountClient_get(only({}, "only_people"), st.cache,
                                                Head(order), fault) } } })

\* _validate, visiting the set in `order`
validate_set(order, cache, fault) ==
    The({ validate_loop(order, st, fault) :
            st \in { [outcome |-> "ok", cache |-> cache, sent |-> 0, status |-> 0,
                      full |-> {}, base |-> {}, inactive |-> {}, unknown |-> {}] } })

\* The collections validate() is registered for
Shapes == {"list", "tuple", "set", "frozenset"}

\* What validate() hands to _validate: a set is passed on as it is, anything else
\* goes through set(raw).  A list or tuple is held as a sequence, a set or
\* frozenset as the set of its elements.
as_set(shape, raw) ==
    IF shape = "set" THEN raw
    ELSE IF shape = "frozenset" THEN {sunetid \in raw : TRUE}
    ELSE Range(raw)

\* The AccountValidationResults validate() returns for the set `sunetids` when
\* _validate ended as `done`, or what was raised
validate_results(sunetids, done) ==
    IF done.outcome # "ok"
    THEN [NoResults EXCEPT !.outcome = done.outcome]
    ELSE [outcome |-> "ok", raw |-> None, raw_set |-> sunetids,
          full |-> done.full, base |-> done.base,
          inactive |-> done.inactive, unknown |-> done.unknown]

\* validate() of the list, tuple, set or frozenset `raw`; the loop walks the set
\* in `order`
Validate(shape, raw, order, fault) ==
    /\ Range(order) = as_set(shape, raw)
    /\ Len(order) = Cardinality(as_set(shape, raw))
    /\ \E done \in {validate_set(order, acache, fault)} :
       /\ acache' = done.cache
       /\ vresult' = validate_results(as_set(shape, raw), done)
       /\ last' = Called("validate", done.outcome, done.sent, 0)
    /\ UNCHANGED <<wgvars, aheld, agot>>

\* The characters the pattern r'\s|,' matches: the comma and the whitespace
\* characters (NBSP stands for U+00A0, whitespace that is not ASCII).  A string is
\* held as the sequence of its pieces: a separator, or a run of other characters
\* ("fullprsn", Suffix, ...), so that the pieces between two separators are a
\* candidate of Candidates.
Whitespace == {" ", "\t", "\n", "\r", "NBSP"}
IsSeparator(c) == c \in Whitespace \/ c = ","

\* re.split cutting at commas only
RECURSIVE re_split_commas(_, _)
re_split_commas(raw, token) ==
    IF raw = <<>> THEN <<token>>
    ELSE IF Head(raw) = "," THEN <<token>> \o re_split_commas(Tail(raw), <<>>)
    ELSE re_split_commas(Tail(raw), Append(token, Head(raw)))

\* re.split(r'\s|,', raw): the pieces are cut at every separator; `token` is what
\* was read since the last cut
RECURSIVE re_split(_, _)
re_split(raw, token) ==
    IF raw = <<>> THEN <<token>>
    ELSE IF IsSeparator(Head(raw)) THEN <<token>> \o re_split(Tail(raw), <<>>)
    ELSE re_split(Tail(raw), Append(token, Head(raw)))

\* set(filter(lambda item: len(item)>0, raw_list))
raw_list_filtered(raw_list) ==
    {raw_list[i] : i \in {j \in 1..Len(raw_list) : Len(raw_list[j]) > 0}}

\* validate() of the string `raw`; the loop walks the set of its tokens in `order`
ValidateStr(raw, order, fault) ==
    \E sunetids \in {raw_list_filtered(re_split(raw, <<>>))} :
    /\ Range(order) = sunetids
    /\ Len(order) = Cardinality(sunetids)
    /\ \E done \in {validate_set(order, acache, fault)} :
       /\ acache' = done.cache
       /\ vresult' = IF done.outcome # "ok" THEN validate_results(sunetids, done)
                     ELSE [validate_results(sunetids, done) EXCEPT !.raw = raw]
       /\ last' = Called("validate", done.outcome, done.sent, 0)
    /\ UNCHANGED <<wgvars, aheld, agot>>

\* client.get(sunetid) on the client, or on a view of it carrying `filters`
AccountGet(filters, sunetid, fault) ==
    /\ \E got \in {AccountClient_get(filters, acache, sunetid, fault)} :
       /\ acache' = got.cache
       /\ aheld' = IF got.outcome = "ok" THEN got.account ELSE aheld
       /\ agot' = IF got.outcome = "ok" THEN (sunetid :> got.account) @@ agot
                  ELSE agot
       /\ last' = Called("account_get", got.outcome, got.sent, got.status)
    /\ UNCHANGED <<wgvars, vresult>>

\* AccountClient.__contains__, given how its get() ended: True, False, or what
\* get() raised that is not a KeyError
contains(got) ==
    CASE got.outcome = "ok" -> "True"
      [] got.outcome = "KeyError" -> "False"
      [] OTHER -> got.outcome

\* `sunetid in client` on the client, or on a view of it carrying `filters`
AccountContains(filters, sunetid, fault) ==
    /\ \E got \in {AccountClient_get(filters, acache, sunetid, fault)} :
       /\ acache' = got.cache
       /\ last' = Called("account_in", contains(got), got.sent, got.status)
    /\ UNCHANGED <<wgvars, vresult, aheld, agot>>

\* AccountClient.clear_cache, on the client or on any view of it (they hold the
\* same dict)
ClearCache ==
    /\ acache' = <<>>
    /\ agot' = <<>>
    /\ last' = Called("clear_cache", "ok", 0, 0)
    /\ UNCHANGED <<wgvars, vresult, aheld>>

\* The values of `days` callers pass to get_changed_status
DaysInputs == -1..32

\* The pairs (current_status, get_people) callers pass with it
QueryInputs == {<<"active", TRUE>>, <<"inactive", TRUE>>, <<"pending", FALSE>>}

\* The clients get_changed_status is called on: the client itself and a view
ChangedViews == { {}, only(only({}, "only_functional"), "only_inactive") }

\* The entries of the answer to a changed-status search
Changed1 == [id |-> <<"fullprsn">>, type |-> "self", status |-> "active"]
Changed2 == [id |-> <<"formerpsn">>, type |-> "self", status |-> "inactive"]
Changed3 == [id |-> <<"functional">>, type |-> "functional", status |-> "active"]
Changed4 == [id |-> <<"shared">>, type |-> "group", status |-> "active"]

\* What the server answers a changed-status search
ChangedResponses ==
    [status : {200}, body : {[json |-> {}], [json |-> {Changed1, Changed2, Changed3}],
                             [json |-> {Changed4}]}]
    \cup [status : {400, 401, 403, 404, 500, 521, TimedOut}, body : {ErrorBody}]

\* The two tests of get_changed_status on `days`
days_check_lax(days) ==
    IF days < 1 THEN "ValueError"
    ELSE IF days > 31 THEN "ValueError"
    ELSE "ok"

days_check(days) ==
    IF days < 1 THEN "ValueError"
    ELSE IF days > 30 THEN "ValueError"
    ELSE "ok"

\* What the `match response.status_code` of get_changed_status raises, and what
\* PartialAccount.from_json raises for an entry of a type it does not know
changed_status_outcome(response) ==
    CASE response.status = TimedOut -> "Timeout"
      [] response.status \in {400, 500} -> "ChildProcessError"
      [] response.status \in {401, 403} -> "PermissionError"
      [] response.status # 200 -> "NotImplementedError"
      [] \E source \in response.body.json : source.type \notin {"self", "functional"}
            -> "NotImplementedError"
      [] OTHER -> "ok"

\* PartialAccount.from_json
partial_account(source) ==
    [ sunetid |-> source.id,
      is_person |-> (source.type = "self"),
      is_active |-> (source.status = "active") ]

\* A call of get_changed_status: `query` is the query it sent (none: <<>>)
Queried(outcome, sent, status, query, results) ==
    [op |-> "get_changed_status", outcome |-> outcome, sent |-> sent,
     status |-> status, query |-> query, results |-> results]

\* AccountClient.get_changed_status on the client, or on a view of it carrying
\* `filters`
GetChangedStatus(filters, days, current_status, get_people, responses) ==
    /\ IF days_check(days) # "ok"
       THEN last' = Queried(days_check(days), 0, 0, <<>>, {})
       ELSE \E response \in responses :
            LET outcome == changed_status_outcome(response)
                query == [type |-> IF get_people THEN "self" ELSE "functional",
                          status |-> current_status,
                          statusdays |-> days]
            IN  last' = Queried(outcome, 1, response.status, query,
                                IF outcome = "ok"
                                THEN {partial_account(source) :
                                        source \in response.body.json}
                                ELSE {})
    /\ UNCHANGED <<wgvars, acctvars>>

----------------------------------------------------------------------------
(* Specifications *)

Init ==
    /\ owner = "none"
    /\ wg = NoWorkgroup
    /\ identifiers = EmptyContainers
    /\ last = Called("init", "ok", 0, 0)
    /\ added = {}
    /\ wcache = 0
    /\ wgot = 0
    /\ wfrom = NoJson
    /\ acache = <<>>
    /\ vresult = NoResults
    /\ aheld = NoAccount
    /\ agot = <<>>

\* The containers the caller changes while it works on the workgroup's properties
FewContainers == {<<"members", "USER">>, <<"administrators", "CERTIFICATE">>}

\* The life of a Workgroup: every operation of the entity, every answer.
Next ==
    \/ Get(Responses)
    \/ Refresh(Responses)
    \/ \E value \in DescriptionInputs : SetDescription(value, Responses)
    \/ \E value \in FilterInputs : SetFilter(value, Responses)
    \/ \E value \in BoolInputs : SetPrivgroup(value, Responses)
    \/ \E value \in BoolInputs : SetReusable(value, Responses)
    \/ \E value \in VisibilityInputs : SetVisibility(value, Responses)
    \/ Delete(Responses)
    \/ GetPrivgroup(Responses)
    \/ \E accessor \in Accessors : Read(accessor)
    \/ \E container \in FewContainers : \E value \in Values(container[2]) :
            Add(container, value, MemberResponses)
    \/ \E container \in FewContainers : \E value \in Values(container[2]) :
            Discard(container, value, MemberResponses)
    \/ \E container \in FewContainers : \E value \in Values(container[2]) :
            Remove(container, value, MemberResponses)
    \/ DropWorkgroup

Spec == Init /\ [][Next]_vars

\* What the server answers while the caller works on the memberships
LiveResponses == {r \in Responses : r.status = 200 \/ HasInactiveMarker(r)}

\* The six membership containers: every add, discard and remove, every answer.
NextMember ==
    \/ Get(LiveResponses)
    \/ Refresh(LiveResponses)
    \/ Delete(LiveResponses)
    \/ \E container \in Containers : \E value \in Values(container[2]) :
            Add(container, value, MemberResponses)
    \/ \E container \in Containers : \E value \in Values(container[2]) :
            Discard(container, value, MemberResponses)
    \/ \E container \in Containers : \E value \in Values(container[2]) :
            Remove(container, value, MemberResponses)
    \/ DropWorkgroup

SpecMember == Init /\ [][NextMember]_vars

\* Candidates read as a ring: the indices of the candidates from the k-th on
Rotation(k) ==
    [i \in 1..Len(Candidates) |-> ((k + i - 2) % Len(Candidates)) + 1]

\* The lists of candidates a caller passes to validate(), as lists of indices:
\* at most MaxCandidates neighbours on the ring, and the same with the first
\* one given twice
CandidateLists ==
    {SubSeq(Rotation(k), 1, n) : k \in 1..Len(Candidates), n \in 0..MaxCandidates}
    \cup {<<k>> \o SubSeq(Rotation(k), 1, n) :
                k \in 1..Len(Candidates), n \in 1..(MaxCandidates - 1)}

ListOf(raw) == [i \in 1..Len(raw) |-> Candidates[raw[i]]]

\* What the caller passes to validate() in each shape
Inputs(shape) ==
    IF shape \in {"list", "tuple"} THEN {ListOf(raw) : raw \in CandidateLists}
    ELSE {Range(ListOf(raw)) : raw \in CandidateLists}

\* The only_*() calls the caller stacks on the client, in the order it makes them
Stacks == UNION {[1..n -> FilterNames] : n \in 0..MaxStack}

\* The _filters of the view a stack of only_*() calls ends with
RECURSIVE Stacked(_)
Stacked(stack) ==
    IF stack = <<>> THEN {}
    ELSE only(Stacked(SubSeq(stack, 1, Len(stack) - 1)), stack[Len(stack)])

\* The _filters of the client and of the views the caller makes of it
Views == {Stacked(stack) : stack \in Stacks}

\* The identifiers the caller looks up through the views
AccountIds == {<<"fullprsn">>, <<"formerpsn">>, <<"functional">>, <<"nobody">>}

\* validate() over the cache of the client, and clear_cache().
NextValidate ==
    \/ \E shape \in Shapes : \E raw \in Inputs(shape) :
       \E order \in Orders(as_set(shape, raw)) : \E fault \in Faults(Range(order)) :
            Validate(shape, raw, order, fault)
    \/ ClearCache

SpecValidate == Init /\ [][NextValidate]_vars

\* The strings a caller passes to validate(): '', separators only, one candidate,
\* candidates with each separator between them, with separators repeated, before
\* and after, and with a candidate given twice
StringInputs ==
    { <<>>,
      <<",", " ">>,
      <<"fullprsn">>,
      <<"fullprsn", ",", "afilbase">>,
      <<"formerpsn", "\r", "\n", "fullprsn", Suffix>>,
      <<" ", "fullprsn", "\t", "NBSP", "fullprsn", ",">>,
      <<"nobody", " ", "afilbase", "\n">>,
      <<"functional", "\t", "ren", NonAscii, ",", ",", "afilbase">> }

\* validate() of strings over the cache of the client, and clear_cache().
NextValidateStr ==
    \/ \E raw \in StringInputs :
       \E sunetids \in {raw_list_filtered(re_split(raw, <<>>))} :
       \E order \in Orders(sunetids) : \E fault \in Faults(sunetids) :
            ValidateStr(raw, order, fault)
    \/ ClearCache

SpecValidateStr == Init /\ [][NextValidateStr]_vars

\* Lookups and membership tests through the client and the views made of it,
\* and clear_cache().
NextAccount ==
    \/ \E filters \in Views : \E sunetid \in AccountIds :
       \E fault \in Faults({sunetid}) :
            AccountGet(filters, sunetid, fault)
    \/ \E filters \in Views : \E sunetid \in AccountIds :
       \E fault \in Faults({sunetid}) :
            AccountContains(filters, sunetid, fault)
    \/ ClearCache

SpecAccount == Init /\ [][NextAccount]_vars

\* The identifiers the caller looks up while it works with the caches
CacheIds == {<<"fullprsn">>, <<"fullprsn", Suffix>>, <<"formerpsn">>, <<"nobody">>}

\* The two caches: lookups of the workgroup and of accounts, refreshes, the
\* caller letting go of the workgroup, and both clear_cache().
NextCache ==
    \/ Get(Responses)
    \/ Refresh(Responses)
    \/ WorkgroupClearCache
    \/ DropWorkgroup
    \/ \E sunetid \in CacheIds : \E fault \in Faults({sunetid}) :
            AccountGet({}, sunetid, fault)
    \/ ClearCache

SpecCache == Init /\ [][NextCache]_vars

\* What the caller looks up through the AccountClient beside the workgroups
CreateIds == {<<"fullprsn">>, <<"ren", NonAscii>>}

\* Workgroups made and fetched, descriptions set, accounts looked up.
NextCreate ==
    \/ \E name \in NameInputs : \E description \in DescriptionInputs :
            Create(name, description, CreateResponses)
    \/ Get(Responses)
    \/ WorkgroupContains(Responses)
    \/ \E value \in DescriptionInputs : SetDescription(value, Responses)
    \/ WorkgroupClearCache
    \/ DropWorkgroup
    \/ \E sunetid \in CreateIds : \E fault \in Faults({sunetid}) :
            AccountGet({}, sunetid, fault)
    \/ ClearCache

SpecCreate == Init /\ [][NextCreate]_vars

\* What the server answers while the caller looks at who may see the workgroup
VisibilityResponses ==
    [status : {200}, body : {[json |-> j] : j \in WorkgroupJsons \cup {Json4}}]
    \cup [status : {400}, body : {InactiveBody}]
    \cup [status : {404}, body : {ErrorBody}]

\* The Workgroup fetched and refreshed, its properties set, its visibility and
\* can_see_membership read, its privgroup asked for.
NextVisibility ==
    \/ Get(VisibilityResponses)
    \/ Refresh(VisibilityResponses)
    \/ \E value \in DescriptionInputs : SetDescription(value, VisibilityResponses)
    \/ \E value \in FilterInputs : SetFilter(value, VisibilityResponses)
    \/ \E value \in BoolInputs : SetPrivgroup(value, VisibilityResponses)
    \/ \E value \in BoolInputs : SetReusable(value, VisibilityResponses)
    \/ \E value \in VisibilityInputs : SetVisibility(value, VisibilityResponses)
    \/ \E accessor \in {"visibility", "can_see_membership"} : Read(accessor)
    \/ GetPrivgroup(VisibilityResponses)
    \/ WorkgroupClearCache

SpecVisibility == Init /\ [][NextVisibility]_vars

\* The searches of a WorkgroupClient, beside get and the cache
NextSearch ==
    \/ \E search \in SearchInputs : SearchByName(search, SearchResponses(NameSearchJsons))
    \/ \E sunetid \in SearchInputs : SearchByUser(sunetid, SearchResponses(TargetSearchJsons))
    \/ \E certificate \in SearchInputs :
         SearchByCertificate(certificate, SearchResponses(TargetSearchJsons))
    \/ \E workgroup \in SearchInputs :
         SearchByWorkgroup(workgroup, SearchResponses(TargetSearchJsons))
    \/ Get(Responses)
    \/ WorkgroupClearCache
    \/ DropWorkgroup

SpecSearch == Init /\ [][NextSearch]_vars

\* The changed-status search on the client and on a view of it, and clear_cache
NextChanged ==
    \/ \E filters \in ChangedViews : \E days \in DaysInputs : \E query \in QueryInputs :
            GetChangedStatus(filters, days, query[1], query[2], ChangedResponses)
    \/ ClearCache

SpecChanged == Init /\ [][NextChanged]_vars

\* The answers that take the caller through the states in which the requests
\* are counted: success with the body `json`, and the workgroup is inactive
Answers(responses, json) ==
    {r \in responses :
        \/ r.status \in {200, 201} /\ r.body.json = json
        \/ HasInactiveMarker(r)}

\* The candidates validate() is given while the requests are counted: an
\* account under two names and a candidate the server does not know
RequestList == << <<"fullprsn">>, <<"fullprsn", Suffix>>, <<"nobody">> >>

\* The answers to the searches while the requests are counted
NameSearchJson == [results |-> {Lite1}]
TargetSearchJson == [members |-> {Lite1}, administrators |-> {}]

\* Every operation that sends a request
NextRequests ==
    \/ Get(Answers(Responses, Json1))
    \/ Create(ValidCreate[1], ValidCreate[2], Answers(CreateResponses, Json1))
    \/ Refresh(Answers(Responses, Json1))
    \/ SetDescription(<<84, 101, 115, 116>>, Answers(Responses, Json1))
    \/ SetFilter([type |-> "enum", v |-> "STAFF"], Answers(Responses, Json1))
    \/ SetPrivgroup([type |-> "bool", v |-> FALSE], Answers(Responses, Json1))
    \/ SetReusable([type |-> "bool", v |-> FALSE], Answers(Responses, Json1))
    \/ SetVisibility([type |-> "enum", v |-> "PRIVATE"], Answers(Responses, Json1))
    \/ Delete(Answers(Responses, Json1))
    \/ GetPrivgroup(Answers(Responses, Json1))
    \/ Add(<<"members", "USER">>, "akkornel", Answers(MemberResponses, Json1))
    \/ Discard(<<"members", "USER">>, "akkornel", Answers(MemberResponses, Json1))
    \/ SearchByName(ValidSearch, Answers(SearchResponses({NameSearchJson}), NameSearchJson))
    \/ SearchByUser(ValidSearch,
                    Answers(SearchResponses({TargetSearchJson}), TargetSearchJson))
    \/ SearchByCertificate(ValidSearch,
                    Answers(SearchResponses({TargetSearchJson}), TargetSearchJson))
    \/ SearchByWorkgroup(ValidSearch,
                    Answers(SearchResponses({TargetSearchJson}), TargetSearchJson))
    \/ \E fault \in {NoFault} : AccountGet({}, <<"fullprsn", Suffix>>, fault)
    \/ GetChangedStatus({}, 30, "active", TRUE, Answers(ChangedResponses, {Changed4}))
    \/ \E order \in Orders(Range(RequestList)) : \E fault \in Faults({<<"fullprsn">>}) :
            Validate("list", RequestList, order, fault)

SpecRequests == Init /\ [][NextRequests]_vars

----------------------------------------------------------------------------
(* Properties of the Workgroup life cycle *)

\* The calls on the instance that go to the server
RoundTripOps == SetterOps \cup {"refresh", "delete", "get_privgroup"}

\* One call on the instance that is answered `response`
RoundTrip(response) ==
    \/ Refresh({response})
    \/ \E value \in DescriptionInputs : SetDescription(value, {response})
    \/ \E value \in FilterInputs : SetFilter(value, {response})
    \/ \E value \in BoolInputs : SetPrivgroup(value, {response})
    \/ \E value \in BoolInputs : SetReusable(value, {response})
    \/ \E value \in VisibilityInputs : SetVisibility(value, {response})
    \/ Delete({response})
    \/ GetPrivgroup({response})

\* C2: once the deleted flag of the instance is true, no call on the instance or
\* on its membership containers makes it false again.
C2_DeletedIsTerminal ==
    [][(owner = "live" /\ wg.deleted /\ owner' = "live") => wg'.deleted]_vars

\* C2 witness: an add through a container kept from before the deletion went
\* through on the deleted instance, and the flag is still true.
C2_Witness ==
    /\ owner = "live" /\ wg.deleted
    /\ last.op = "add" /\ last.outcome = "ok"

\* C3: a refresh, setter, delete or get_privgroup round trip on a live instance
\* that is answered 400 with the 'Workgroup is inactive' marker raises
\* WorkgroupDeleted, and the deleted flag is true when it does.
C3_InactiveMarksDeleted ==
    [][(/\ owner = "live" /\ ~wg.deleted
        /\ last'.op \in RoundTripOps /\ last'.sent = 1 /\ last'.status = 400)
        => \A response \in Responses :
            (HasInactiveMarker(response) /\ RoundTrip(response))
            => (last'.outcome = "WorkgroupDeleted" /\ wg'.deleted)]_vars

\* C3 witness: a round trip has just raised WorkgroupDeleted.
C3_Witness ==
    /\ last.op \in RoundTripOps
    /\ last.sent = 1
    /\ last.outcome = "WorkgroupDeleted"
    /\ wg.deleted

\* C4: on an instance whose deleted flag is true, every call of refresh, delete,
\* get_privgroup or a property setter raises EOFError and sends no request.
C4_DeletedFailsLocally ==
    [][(owner = "live" /\ wg.deleted /\ last'.op \in RoundTripOps)
        => (last'.outcome = "EOFError" /\ last'.sent = 0)]_vars

\* C4 witness: a setter was called on the deleted instance.
C4_Witness ==
    /\ wg.deleted
    /\ last.op = "set_description"
    /\ last.outcome = "EOFError"
    /\ last.sent = 0

C20_DeleteEmpties ==
    (last.op = "delete" /\ last.status = 200) =>
        /\ owner = "live" /\ wg.deleted
        /\ \A container \in Containers : identifiers[container] = {}
        /\ last.outcome = "ok"
        /\ last.sent = 1

\* C20 witness: a Workgroup filled from a JSON that lists a member and two
\* administrators has been deleted, the server answering 200.
C20_Witness ==
    /\ last.op = "delete" /\ last.status = 200
    /\ wfrom = Json1
    /\ wg.deleted

\* C23: on a Workgroup that is not deleted and whose can_see_membership is
\* false, get_privgroup() can only end in one way: PermissionError is raised, no
\* request is sent and nothing is changed.
C23_PrivgroupFailsFast ==
    (owner = "live" /\ ~wg.deleted /\ ~wg.can_see_membership) =>
        /\ ENABLED GetPrivgroup(Responses)
        /\ ~ENABLED ( /\ GetPrivgroup(Responses)
                      /\ ~( /\ last'.outcome = "PermissionError"
                            /\ last'.sent = 0
                            /\ UNCHANGED <<wgvars, acctvars>> ) )

\* C23 witness: get_privgroup() was refused on a private Workgroup the caller
\* does not administer.
C23_Witness ==
    /\ last.op = "get_privgroup" /\ last.outcome = "PermissionError" /\ last.sent = 0
    /\ owner = "live" /\ ~wg.deleted /\ ~wg.can_see_membership
    /\ wg.visibility = "PRIVATE"

\* C24: can_see_membership of a Workgroup that is not deleted is true when its
\* visibility is STANFORD, and when its visibility is PRIVATE it is true exactly
\* when the administrators the server last returned are not empty.
C24_CanSeeMembership ==
    (owner = "live" /\ ~wg.deleted) =>
        /\ wg.visibility = "STANFORD" => wg.can_see_membership
        /\ wg.visibility = "PRIVATE" =>
                (wg.can_see_membership <=> wfrom.administrators # {})

\* What a Workgroup JSON carries for a container: the identifiers of the members
\* of its role that have the container's type
Carried(response_json, container) ==
    {m.id : m \in {n \in (IF container[1] = "members" THEN response_json.members
                                ELSE response_json.administrators) :
                        n.type = MemberType(container[2])}}

\* The Workgroup after the step holds what the JSON it read in the step carries
Rederived ==
    /\ wg'.description = (IF "description" \in DOMAIN wfrom' THEN wfrom'.description
                          ELSE "")
    /\ wg'.filter = wfrom'.filter
    /\ wg'.privgroup = (wfrom'.privgroup = "TRUE")
    /\ wg'.reusable = (wfrom'.reusable = "TRUE")
    /\ wg'.visibility = wfrom'.visibility
    /\ wg'.last_update = datestr_to_date(wfrom'.lastUpdate)
    /\ \A container \in Containers :
            identifiers'[container] = Carried(wfrom', container)

\* C28: a property setter or refresh() answered 200 leaves description, filter,
\* privgroup, reusable, visibility, last_update and the six containers equal to
\* what the answer carries, whatever they held before, and leaves name as it
\* was.
C28_Rederived ==
    [][(last'.op \in SetterOps \cup {"refresh"} /\ last'.status = 200) =>
            /\ Rederived
            /\ wg'.name = wg.name]_vars

\* C28 witness: a setter of the Workgroup 'test:1', which had members, was
\* answered with the JSON of a workgroup of another name that has none.
C28_Witness ==
    /\ last.op \in SetterOps /\ last.status = 200
    /\ wg.name = "test:1" /\ wfrom = Json4
    /\ \A container \in Containers : identifiers[container] = {}

----------------------------------------------------------------------------
(* Properties of the membership containers *)

\* Every pair of a container and an identifier the caller passes to it
Pairs == {p \in Containers \X {"akkornel", "workgroup:test-owners", "cert5225"} :
            p[2] \in Values(p[1][2])}

\* C6: add(x), live owner, x not in the local set: the PUT is sent, x is in the
\* set and last_update is reset exactly when the PUT was answered with success,
\* and after any other answer the set and last_update are unchanged.
C6_AddFrame ==
    [][\A p \in Pairs : \A response \in MemberResponses :
        (/\ owner = "live"
         /\ p[2] \notin identifiers[p[1]]
         /\ Add(p[1], p[2], {response}))
        => /\ last'.sent = 1
           /\ (p[2] \in identifiers'[p[1]] /\ wg'.last_update = StanfordDate(Now))
                <=> response.status = 200
           /\ response.status # 200 =>
                (identifiers' = identifiers /\ wg'.last_update = wg.last_update)]_vars

\* C7: discard(x) or remove(x), live owner, x in the local set: x is out of the
\* set and last_update is reset exactly when the DELETE was answered with
\* success, and after any other answer x is still there and last_update is
\* unchanged.
C7_DiscardFrame ==
    [][\A p \in Pairs : \A response \in MemberResponses :
        (/\ owner = "live"
         /\ p[2] \in identifiers[p[1]]
         /\ (Discard(p[1], p[2], {response}) \/ Remove(p[1], p[2], {response})))
        => /\ (p[2] \notin identifiers'[p[1]] /\ wg'.last_update = StanfordDate(Now))
                <=> response.status = 200
           /\ response.status # 200 =>
                (p[2] \in identifiers'[p[1]] /\ wg'.last_update = wg.last_update)]_vars

\* C8 as stated: add(x) after an add(x) that went through, with no discard of x
\* in between (whatever else ran in between), raises KeyError and sends nothing.
C8_SecondAddFails ==
    [][\A p \in Tracked : \A response \in MemberResponses :
        (p \in added /\ Add(p[1], p[2], {response}))
        => (last'.outcome = "KeyError" /\ last'.sent = 0)]_vars

\* C8 amended: add(x) after an add(x) that went through raises KeyError and
\* sends nothing as long as x is still in the local set, that is when no
\* discard, refresh, setter or delete has taken it out in between.
C8_SecondAddFailsWhileKnown ==
    [][\A p \in Tracked : \A response \in MemberResponses :
        (p \in added /\ p[2] \in identifiers[p[1]] /\ Add(p[1], p[2], {response}))
        => (last'.outcome = "KeyError" /\ last'.sent = 0
            /\ identifiers' = identifiers)]_vars

\* C8 witness: the second add of the followed identifier has raised KeyError.
C8_Witness ==
    /\ added # {}
    /\ last.op = "add" /\ last.outcome = "KeyError" /\ last.sent = 0
    /\ \A p \in added : p[2] \in identifiers[p[1]]

C10_RemoveVsDiscard ==
    [][\A p \in Pairs :
        /\ (p[2] \notin identifiers[p[1]] /\ Discard(p[1], p[2], MemberResponses))
                => last'.outcome = "ok"
        /\ (p[2] \notin identifiers[p[1]] /\ Remove(p[1], p[2], MemberResponses))
                => last'.outcome = "KeyError"
        /\ (p[2] \in identifiers[p[1]] /\ owner # "none")
                => (Remove(p[1], p[2], MemberResponses)
                        <=> discard("remove", p[1], p[2], MemberResponses))]_vars

\* The calls on a membership container
MemberOps == {"add", "discard", "remove"}

\* C11 as stated: every add, discard or remove on a container whose owner is gone
\* raises EOFError, sends no request and leaves the local sets unchanged, whether
\* or not the identifier is in the local set.
C11_OwnerGoneFails ==
    [][(owner = "gone" /\ last'.op \in MemberOps)
        => (last'.outcome = "EOFError" /\ last'.sent = 0
            /\ identifiers' = identifiers)]_vars

\* C11 amended: on a container whose owner is gone no call sends a request or
\* changes the local sets; the test of the local set comes before the
\* back-reference is resolved, so add(x) raises EOFError for x not in the set
\* and KeyError for x in it, and discard(x) and remove(x) raise EOFError for x in
\* the set and KeyError for x not in it.
C11_OwnerGoneAfterLocalTest ==
    [][(owner = "gone" /\ last'.op \in MemberOps) =>
        /\ last'.sent = 0
        /\ identifiers' = identifiers
        /\ \A p \in Pairs :
            /\ Add(p[1], p[2], MemberResponses) =>
                    last'.outcome = IF p[2] \in identifiers[p[1]]
                                    THEN "KeyError" ELSE "EOFError"
            /\ (Discard(p[1], p[2], MemberResponses)
                    \/ Remove(p[1], p[2], MemberResponses)) =>
                    last'.outcome = IF p[2] \in identifiers[p[1]]
                                    THEN "EOFError" ELSE "KeyError"]_vars

\* C11 witness: with the owner gone, a remove of an identifier of the local set
\* has raised EOFError.
C11_Witness ==
    /\ owner = "gone"
    /\ last.op = "remove" /\ last.outcome = "EOFError" /\ last.sent = 0
    /\ \E p \in Pairs : p[2] \in identifiers[p[1]]

\* C25: in every state with the Workgroup held and not deleted, an add(x) of an
\* x that is not in the set, and a remove(x) of an x that is, whose request is
\* answered 400 with the 'Workgroup is inactive' notification can only raise
\* WorkgroupDeleted and leave the Workgroup marked deleted.
C25_MemberInactive ==
    \A p \in Pairs :
    \A response \in {r \in MemberResponses : HasInactiveMarker(r)} :
        (owner = "live" /\ ~wg.deleted) =>
            /\ p[2] \notin identifiers[p[1]] =>
                ~ENABLED ( /\ Add(p[1], p[2], {response})
                          /\ ~(last'.outcome = "WorkgroupDeleted" /\ wg'.deleted) )
            /\ p[2] \in identifiers[p[1]] =>
                ~ENABLED ( /\ Remove(p[1], p[2], {response})
                          /\ ~(last'.outcome = "WorkgroupDeleted" /\ wg'.deleted) )

\* C26: in every state with the Workgroup held, an add(x) of an x that is not in
\* the set whose PUT is answered 409 can only raise KeyError, an add(x) or a
\* remove(x) whose request is answered with a status other than 200, 400, 401,
\* 403, 404, 409 and 500 can only raise NotImplementedError, and either way
\* the set is as it was.
C26_MemberOtherStatus ==
    \A p \in Pairs : \A response \in MemberResponses :
        owner = "live" =>
            /\ (response.status = 409 /\ p[2] \notin identifiers[p[1]]) =>
                ~ENABLED ( /\ Add(p[1], p[2], {response})
                          /\ ~( /\ last'.outcome = "KeyError"
                                /\ identifiers' = identifiers ) )
            /\ ( /\ response.status \notin {200, 400, 401, 403, 404, 409, 500}
                 /\ p[2] \notin identifiers[p[1]] ) =>
                ~ENABLED ( /\ Add(p[1], p[2], {response})
                          /\ ~( /\ last'.outcome = "NotImplementedError"
                                /\ identifiers' = identifiers ) )
            /\ ( /\ response.status \notin {200, 400, 401, 403, 404, 409, 500}
                 /\ p[2] \in identifiers[p[1]] ) =>
                ~ENABLED ( /\ Remove(p[1], p[2], {response})
                          /\ ~( /\ last'.outcome = "NotImplementedError"
                                /\ identifiers' = identifiers ) )

----------------------------------------------------------------------------
(* Properties of the caches *)

\* Two instances hold the same values in every field
SameFields(a, b) == [a EXCEPT !.ref = 0] = [b EXCEPT !.ref = 0]

\* Two Workgroup instances hold the same values in every field but last_refresh
SameRecord(a, b) ==
    [a EXCEPT !.ref = 0, !.last_refresh = 0] = [b EXCEPT !.ref = 0, !.last_refresh = 0]

\* A get(id) on the AccountClient that follows a get(id) which returned, with no
\* clear_cache() in between, returns the same instance and sends nothing.
AccountGetAgain ==
    \A sunetid \in CacheIds : \A fault \in Faults({sunetid}) :
        (sunetid \in DOMAIN agot /\ AccountGet({}, sunetid, fault))
        => (last'.outcome = "ok" /\ last'.sent = 0 /\ aheld' = agot[sunetid])

\* A get('test:1') on the WorkgroupClient that follows a get which returned, with
\* no clear_cache() in between and the instance still held, returns the same
\* instance and sends nothing.
WorkgroupGetAgain ==
    (owner = "live" /\ wgot = wg.ref /\ Get(Responses))
    => (last'.outcome = "ok" /\ last'.sent = 0 /\ wg'.ref = wgot /\ wg' = wg)

\* The get(id) that follows AccountClient.clear_cache() sends a request, and the
\* instance it returns is not the one the caller holds; its fields are the same
\* when it is the same account.
AccountGetAfterClear ==
    \A sunetid \in CacheIds : \A fault \in Faults({sunetid}) :
        (last.op = "clear_cache" /\ IsAscii(sunetid)
         /\ AccountGet({}, sunetid, fault))
        => /\ last'.sent = 1
           /\ last'.outcome = "ok" =>
                /\ aheld' # aheld
                /\ aheld.sunetid = aheld'.sunetid => SameFields(aheld', aheld)

\* A get('test:1') that follows WorkgroupClient.clear_cache()
WorkgroupGetAfterClear == last.op = "workgroup_clear_cache" /\ Get(Responses)

\* That get sends a request, and the instance it returns is not the one the
\* caller holds.
WorkgroupRefetched ==
    /\ last'.sent = 1
    /\ (last'.outcome = "ok" /\ owner = "live") => wg'.ref # wg.ref

\* That get returned an instance made from the JSON the held one last read.
WorkgroupSameJson ==
    last'.outcome = "ok" /\ owner = "live" /\ ~wg.deleted /\ wfrom' = wfrom

\* C12 as stated: on either client a second get(id) with no clear_cache() in
\* between returns the identical instance and sends no request; after
\* clear_cache() get(id) sends a request and returns another instance, every
\* field of which equals the old one's when the server's record is the same.
C12_IdentityCache ==
    [][/\ AccountGetAgain
       /\ WorkgroupGetAgain
       /\ AccountGetAfterClear
       /\ WorkgroupGetAfterClear =>
            /\ WorkgroupRefetched
            /\ WorkgroupSameJson =>
                    (SameFields(wg', wg) /\ identifiers' = identifiers)]_vars

\* C12 amended: the same, but the new Workgroup equals the old one in every field
\* other than last_refresh, which holds the time of the fetch.
C12_IdentityCacheButRefreshTime ==
    [][/\ AccountGetAgain
       /\ WorkgroupGetAgain
       /\ AccountGetAfterClear
       /\ WorkgroupGetAfterClear =>
            /\ WorkgroupRefetched
            /\ WorkgroupSameJson =>
                    (SameRecord(wg', wg) /\ identifiers' = identifiers)]_vars

\* C12 witness: the caller holds a Workgroup, cleared the cache and got the
\* workgroup again from an unchanged record: another instance is in the cache.
C12_Witness ==
    /\ last.op = "get" /\ last.outcome = "ok" /\ last.sent = 1
    /\ owner = "live" /\ wg.ref = 2 /\ wcache = 2
    /\ aheld.ref # 0 /\ acache = <<>>

\* C13: the cache never keeps alive a Workgroup the caller let go of: after
\* `del` the instance is gone although the cache has its entry; and a get that
\* finds the expired entry sends one GET, and when that is answered 200 returns
\* a new live instance, made from the answer, to which the entry now refers.
C13_WeakCache ==
    [][/\ last'.op = "del" => (owner' = "gone" /\ wg' = NoWorkgroup /\ wcache' = wcache)
       /\ \A response \in Responses :
            (owner = "gone" /\ wcache # 0 /\ Get({response}))
            => /\ last'.sent = 1
               /\ response.status = 200 =>
                    /\ last'.outcome = "ok"
                    /\ owner' = "live"
                    /\ wg'.ref # 0 /\ wcache' = wg'.ref
                    /\ SameFields(wg', [from_json(NoWorkgroup, response.body.json, Now)
                                          EXCEPT !.name = response.body.json.name])
                    /\ identifiers' = from_json_members(response.body.json)
               /\ response.status # 200 => (owner' = "gone" /\ wcache' = 0)]_vars

\* C13 witness: the caller let go of the instance it had got, and the cache is
\* left with an entry that refers to nothing.
C13_Witness ==
    /\ last.op = "del"
    /\ owner = "gone"
    /\ wcache # 0

----------------------------------------------------------------------------
(* Properties of the filtered views *)

\* C14: whatever is in the cache, on a view get(id) of an account that Account.get
\* finds (in the cache or by a fetch) and that fails one of the view's filters
\* raises KeyError, which is what get() of an identifier the server does not
\* know raises, and returns no instance, and `id in view` is False; an account
\* that passes every filter is returned, and `id in view` is True.
C14_FilteredGet ==
    \A sunetid \in AccountIds : \A fault \in Faults({sunetid}) :
    \A found \in {Account_get(acache, sunetid, fault)} :
    found.outcome = "ok" =>
        \A filters \in Views \ {{}} :
        \A got \in {AccountClient_get(filters, acache, sunetid, fault)} :
            IF \E f \in filters : ~Passes(f, found.account)
            THEN /\ got.outcome = "KeyError"
                 /\ got.outcome =
                        AccountClient_get(filters, acache, <<"nobody">>, NoFault).outcome
                 /\ got.account = NoAccount
                 /\ contains(got) = "False"
            ELSE /\ got.outcome = "ok"
                 /\ got.account = found.account
                 /\ contains(got) = "True"

\* C14 witness: a get through a view has raised KeyError for an account that is
\* in the cache.
C14_Witness ==
    /\ last.op = "account_get" /\ last.outcome = "KeyError" /\ last.status = 200
    /\ <<"formerpsn">> \in DOMAIN acache

\* C15: whatever is in the cache, for every two only_*() filters and every
\* identifier, get() through the view made by stacking one and then the other
\* ends as get() through the view made in the other order: both return the
\* same account or both raise KeyError.
C15_FiltersCommute ==
    \A first \in FilterNames : \A second \in FilterNames :
    \A sunetid \in AccountIds : \A fault \in Faults({sunetid}) :
        LET one == AccountClient_get(only(only({}, first), second), acache, sunetid, fault)
            other == AccountClient_get(only(only({}, second), first), acache, sunetid, fault)
        IN  /\ one.outcome = other.outcome
            /\ one.account = other.account

\* C15 witness: people and functional accounts, active and inactive, are in the
\* cache, and a view has just rejected one of them.
C15_Witness ==
    /\ {<<"fullprsn">>, <<"formerpsn">>, <<"functional">>} \subseteq DOMAIN acache
    /\ last.op = "account_get" /\ last.outcome = "KeyError" /\ last.sent = 0

\* An account passes every filter of the only_*() calls of a stack
PassesAll(stack, account) == \A i \in 1..Len(stack) : Passes(stack[i], account)

\* C16: a client and the views made of it work on one cache, and making a view
\* leaves the client it is made of as it was.  An identifier for which a get()
\* through any of them returned an instance, with no clear_cache() since, is
\* looked up through every one of them without a request, and the same instance
\* is returned where it passes the filters; after clear_cache() the cache is
\* empty and every one of them sends a request; and the client a view was made
\* of accepts an account exactly when it passes the filters stacked before.
C16_SharedCache ==
    /\ \A sunetid \in DOMAIN agot : \A filters \in Views :
       \A fault \in Faults({sunetid}) :
       \A got \in {AccountClient_get(filters, acache, sunetid, fault)} :
            /\ got.sent = 0
            /\ got.cache = acache
            /\ got.outcome \in {"ok", "KeyError"}
            /\ got.outcome = "ok" => got.account = agot[sunetid]
            /\ got.outcome = "KeyError" =>
                    \E f \in filters : ~Passes(f, acache[sunetid])
    /\ last.op = "clear_cache" =>
            /\ acache = <<>>
            /\ \A sunetid \in AccountIds : \A filters \in Views :
                    AccountClient_get(filters, acache, sunetid, NoFault).sent = 1
    /\ \A stack \in Stacks \ {<<>>} : \A sunetid \in DOMAIN acache :
       LET parent == SubSeq(stack, 1, Len(stack) - 1) IN
            AccountClient_get(Stacked(parent), acache, sunetid, NoFault).outcome = "ok"
                <=> PassesAll(parent, acache[sunetid])

\* C16 witness: an inactive person was fetched and returned through one client,
\* and a get through a view has then found it in the cache and rejected it.
C16_Witness ==
    /\ <<"formerpsn">> \in DOMAIN agot
    /\ aheld.sunetid = <<"fullprsn">>
    /\ last.op = "account_get" /\ last.outcome = "KeyError" /\ last.sent = 0

----------------------------------------------------------------------------
(* Properties of validate *)

\* C17: the results a validate() has returned for the set S of identifiers are
\* the results of validate() of every list, tuple, set and frozenset whose
\* elements are those of S, duplicates in a list or tuple included, in
\* whichever order the set is walked, with the cache as it is now or empty:
\* raw_set, full, base, inactive and unknown are equal.
C17_ShapeInvariant ==
    vresult.outcome = "ok" =>
        \A shape \in Shapes :
        \A raw \in {r \in Inputs(shape) : as_set(shape, r) = vresult.raw_set} :
        \A order \in Orders(as_set(shape, raw)) :
        \A cache \in {acache, <<>>} :
        \A fault \in Faults(Range(order)) :
        \A done \in {validate_set(order, cache, fault)} :
            done.outcome = "ok" =>
                validate_results(as_set(shape, raw), done) = vresult

\* The account of the server's directory a candidate names, <<>> when it names
\* none: the candidate is malformed, or with '@stanford.edu' taken off its end
\* it is no identifier the server knows
RECURSIVE Named(_)
Named(candidate) ==
    IF ~IsAscii(candidate) THEN <<>>
    ELSE IF EndsWithSuffix(candidate) THEN Named(RemoveSuffix(candidate))
    ELSE IF candidate \in DOMAIN Directory THEN candidate
    ELSE <<>>

\* The bucket a candidate belongs in
Bucket(candidate) ==
    LET named == Named(candidate) IN
    IF named = <<>> THEN "unknown"
    ELSE IF Directory[named].type # "self" THEN "unknown"
    ELSE IF Directory[named].status # "active" THEN "inactive"
    ELSE IF Directory[named].leland = "active" THEN "full"
    ELSE "base"

\* What a bucket holds of the candidates of `raw_set`: unknown holds the
\* candidates as passed, the others the identifier the server gives the account
InBucket(raw_set, bucket) ==
    {IF bucket = "unknown" THEN candidate ELSE Directory[Named(candidate)].id :
        candidate \in {c \in raw_set : Bucket(c) = bucket}}

C17_Witness ==
    /\ last.op = "validate" /\ last.outcome = "ok"
    /\ Cardinality(vresult.raw_set) = 2
    /\ vresult.full # {} /\ vresult.unknown # {}

\* The errors of a lookup that _validate catches
Absorbed == {"ValueError", "IndexError", "KeyError"}

C1_Partition ==
    vresult.outcome = "ok" =>
        /\ vresult.full \cap vresult.base = {}
        /\ vresult.full \cap vresult.inactive = {}
        /\ vresult.full \cap vresult.unknown = {}
        /\ vresult.base \cap vresult.inactive = {}
        /\ vresult.base \cap vresult.unknown = {}
        /\ vresult.inactive \cap vresult.unknown = {}
        /\ vresult.full \cup vresult.base \cup vresult.inactive \cup vresult.unknown
                = vresult.raw_set

----------------------------------------------------------------------------
(* Properties of create and of the local checks *)

\* A name, a description that the checks are to refuse
InvalidName(name) == Len(name) > MaxName \/ ~MatchesName(name)
InvalidDescription(value) ==
    \/ Len(value) = 0 \/ Len(value) > MaxDescription
    \/ ~EncodesLatin1(value) \/ ~IsPrintable(value)

\* A call that raised IndexError or ValueError, sent nothing and changed neither
\* the Workgroup, its memberships, nor either cache
RefusedLocally ==
    /\ last'.outcome \in {"IndexError", "ValueError"}
    /\ last'.sent = 0
    /\ UNCHANGED <<wgvars, acctvars>>

\* The calls of create() with a name or a description the checks are to refuse
InvalidCreates ==
    {call \in NameInputs \X DescriptionInputs :
        InvalidName(call[1]) \/ InvalidDescription(call[2])}

\* C21: in every state, create() with an invalid name or an invalid description
\* (empty, longer than 255, not Latin-1, not printable), the description setter
\* of a Workgroup that is not deleted with such a description, and an Account
\* get of an identifier that is not ASCII can only end in one way: IndexError or
\* ValueError is raised, no request is sent, and neither the Workgroup nor a
\* cache is changed; and no create(), description setter or Account get has
\* raised one of the two after sending a request.
C21_ValidationBeforeIO ==
    /\ \A call \in InvalidCreates :
            /\ ENABLED Create(call[1], call[2], CreateResponses)
            /\ ~ENABLED (Create(call[1], call[2], CreateResponses) /\ ~RefusedLocally)
    /\ (owner = "live" /\ ~wg.deleted) =>
            \A value \in {v \in DescriptionInputs : InvalidDescription(v)} :
                /\ ENABLED SetDescription(value, Responses)
                /\ ~ENABLED (SetDescription(value, Responses) /\ ~RefusedLocally)
    /\ \A sunetid \in {id \in CreateIds : ~IsAscii(id)} :
       \A fault \in Faults({sunetid}) :
            /\ ENABLED AccountGet({}, sunetid, fault)
            /\ ~ENABLED ( /\ AccountGet({}, sunetid, fault)
                          /\ ~(RefusedLocally /\ last'.outcome = "ValueError") )
    /\ ( /\ last.op \in {"create", "set_description", "account_get"}
         /\ last.outcome \in {"IndexError", "ValueError"} )
            => last.sent = 0

\* C21 witness: with a Workgroup held and an account in the cache, create() was
\* called with a name that is too long.
C21_Witness ==
    /\ last.op = "create" /\ last.outcome = "IndexError"
    /\ owner = "live" /\ wcache # 0 /\ acache # <<>>

\* create() raised `outcome` after its one POST, made no Workgroup and left the
\* cache, the Workgroup the caller holds and its memberships as they were
CreateFailedWith(outcome) ==
    /\ last'.outcome = outcome
    /\ last'.sent = 1
    /\ UNCHANGED <<wgvars, acctvars>>

\* C22: in every state, a create() whose POST is answered 409 can only raise
\* KeyError (and not WorkgroupDeleted), and one answered 400 with the
\* 'Workgroup is inactive' notification can only raise WorkgroupDeleted; either
\* way no Workgroup is made and the cache is unchanged.
C22_CreateCollisions ==
    \A response \in CreateResponses :
        /\ response.status = 409 =>
            /\ ENABLED Create(ValidCreate[1], ValidCreate[2], {response})
            /\ ~ENABLED ( /\ Create(ValidCreate[1], ValidCreate[2], {response})
                          /\ ~CreateFailedWith("KeyError") )
        /\ (response.status = 400 /\ HasInactiveMarker(response)) =>
            /\ ENABLED Create(ValidCreate[1], ValidCreate[2], {response})
            /\ ~ENABLED ( /\ Create(ValidCreate[1], ValidCreate[2], {response})
                          /\ ~CreateFailedWith("WorkgroupDeleted") )

\* C22 witness: with a Workgroup held and in the cache, create() was answered
\* that the name belongs to a deleted workgroup.
C22_Witness ==
    /\ last.op = "create" /\ last.outcome = "WorkgroupDeleted" /\ last.status = 400
    /\ owner = "live" /\ wcache = wg.ref

\* get() and `in` raised or returned after one GET that put nothing in the
\* cache and made no Workgroup
NothingCached ==
    /\ last'.sent = 1
    /\ wcache' = 0
    /\ UNCHANGED <<owner, wg, identifiers>>

\* C27: in every state where the cache holds no live Workgroup, a get(name)
\* answered 400 with the 'Workgroup is inactive' notification can only raise
\* WorkgroupDeleted, which an `except KeyError` catches, and a get(name) answered
\* 404 can only raise a KeyError that is not WorkgroupDeleted; with either
\* answer `name in client` can only be False; and nothing is put in the cache.
C27_DeletedOrUnknown ==
    ~(owner = "live" /\ wcache = wg.ref) =>
        \A response \in {r \in Responses : HasInactiveMarker(r) \/ r.status = 404} :
            /\ ENABLED Get({response})
            /\ ~ENABLED ( /\ Get({response})
                          /\ ~( /\ IsKeyError(last'.outcome)
                                /\ last'.outcome = "WorkgroupDeleted"
                                        <=> HasInactiveMarker(response)
                                /\ NothingCached ) )
            /\ ENABLED WorkgroupContains({response})
            /\ ~ENABLED ( /\ WorkgroupContains({response})
                          /\ ~(last'.outcome = "False" /\ NothingCached) )

\* C27 witness: `name in client` was False for a workgroup that the server says
\* is inactive, while the caller holds a Workgroup fetched before the cache was
\* cleared.
C27_Witness ==
    /\ last.op = "workgroup_in" /\ last.outcome = "False" /\ last.status = 400
    /\ owner = "live" /\ wcache = 0

----------------------------------------------------------------------------
(* Properties of the status mapping *)

\* The answers with status 400 that do not carry the 'Workgroup is inactive'
\* notification: no JSON, JSON with another notification, JSON with none
Generic400 == {r \in Responses : r.status = 400 /\ ~HasInactiveMarker(r)}

\* C29: in every state, a get or create that sends its request, and a refresh,
\* property setter, delete or get_privgroup on a Workgroup that is not deleted
\* that sends its request, answered 400 without the 'Workgroup is inactive'
\* notification can only raise ChildProcessError, and no Workgroup is marked
\* deleted by it.
C29_Generic400 ==
    \A response \in Generic400 :
        /\ (owner = "live" /\ ~wg.deleted) =>
            ~ENABLED ( /\ RoundTrip(response)
                      /\ last'.sent = 1
                      /\ ~(last'.outcome = "ChildProcessError" /\ ~wg'.deleted) )
        /\ ~(owner = "live" /\ wcache = wg.ref) =>
            ~ENABLED ( /\ Get({response})
                      /\ ~(last'.outcome = "ChildProcessError" /\ wg' = wg) )
        /\ ~ENABLED ( /\ Create(ValidCreate[1], ValidCreate[2], {response})
                      /\ ~(last'.outcome = "ChildProcessError" /\ wg' = wg) )

\* C30: in every state, a get that sends its request, and a refresh, property
\* setter, delete or get_privgroup on a Workgroup that is not deleted that
\* sends its request, answered 404 can only raise KeyError, and no Workgroup is
\* marked deleted by it.
C30_NotFound ==
    \A response \in {r \in Responses : r.status = 404} :
        /\ (owner = "live" /\ ~wg.deleted) =>
            ~ENABLED ( /\ RoundTrip(response)
                      /\ last'.sent = 1
                      /\ ~(last'.outcome = "KeyError" /\ ~wg'.deleted) )
        /\ ~(owner = "live" /\ wcache = wg.ref) =>
            ~ENABLED ( /\ Get({response})
                      /\ ~(last'.outcome = "KeyError" /\ wg' = wg) )

----------------------------------------------------------------------------
(* Properties of the searches *)

\* The answers with a status the searches do not know
Unrecognized(jsons) ==
    {r \in SearchResponses(jsons) : r.status \notin {200, 400, 401, 403, 500}}

\* C31: in every state, each of search_by_name, search_by_user,
\* search_by_certificate and search_by_workgroup, called with a search string
\* that passes the local tests and answered with a status that is none of 200,
\* 400, 401, 403 and 500, can only raise NotImplementedError.
C31_SearchUnrecognized ==
    /\ \A response \in Unrecognized(NameSearchJsons) :
        ~ENABLED ( /\ SearchByName(ValidSearch, {response})
                  /\ last'.outcome # "NotImplementedError" )
    /\ \A response \in Unrecognized(TargetSearchJsons) :
        /\ ~ENABLED ( /\ SearchByUser(ValidSearch, {response})
                     /\ last'.outcome # "NotImplementedError" )
        /\ ~ENABLED ( /\ SearchByCertificate(ValidSearch, {response})
                     /\ last'.outcome # "NotImplementedError" )
        /\ ~ENABLED ( /\ SearchByWorkgroup(ValidSearch, {response})
                     /\ last'.outcome # "NotImplementedError" )

----------------------------------------------------------------------------
(* Properties of validate on a string *)

\* The non-empty tokens of a string: the longest runs of pieces that are not
\* separators
Tokens(raw) ==
    { SubSeq(raw, i, j) : <<i, j>> \in
        { <<a, b>> \in (1..Len(raw)) \X (1..Len(raw)) :
            /\ a <= b
            /\ \A k \in a..b : ~IsSeparator(raw[k])
            /\ a = 1 \/ IsSeparator(raw[a - 1])
            /\ b = Len(raw) \/ IsSeparator(raw[b + 1]) } }

\* What validate() of the set `sunetids`, walked in `order`, returns or raises
ValidatedSet(sunetids, order, fault) ==
    The({ validate_results(sunetids, done) :
            done \in {validate_set(order, acache, fault)} })

----------------------------------------------------------------------------
(* Properties of the changed-status search *)

\* C34: in every state, on the client and on every view of it,
\* get_changed_status with days below 1 or above 30 can only raise ValueError
\* having sent nothing, and with days from 1 to 30 it can only send one request,
\* for that number of days, whatever the server answers.
C34_DaysRange ==
    \A filters \in ChangedViews : \A days \in DaysInputs : \A query \in QueryInputs :
        /\ ENABLED GetChangedStatus(filters, days, query[1], query[2], ChangedResponses)
        /\ ~ENABLED ( /\ GetChangedStatus(filters, days, query[1], query[2],
                                          ChangedResponses)
                     /\ ~ IF days < 1 \/ days > 30
                          THEN last'.outcome = "ValueError" /\ last'.sent = 0
                          ELSE last'.sent = 1 /\ last'.query.statusdays = days )

\* C34 witness: a search for the last 30 days was sent and answered.
C34_Witness ==
    /\ last.op = "get_changed_status"
    /\ last.sent = 1
    /\ last.query.statusdays = 30
    /\ last.outcome = "ok"

----------------------------------------------------------------------------
(* Properties of the requests *)

\* The lists validate() is given when its requests are counted: each candidate
\* of RequestList alone, and RequestList
CountedLists == {<<RequestList[i]>> : i \in 1..Len(RequestList)} \cup {RequestList}

\* C33: the last call sent at most one request, or, when it was validate(), at
\* most one for each distinct candidate; and in every state, whatever the server
\* answers, no call of get, create, refresh, a setter, delete, get_privgroup,
\* add, discard, a search or an account get can send more than one request, and
\* no validate() more than one for each distinct candidate.
C33_NoRetry ==
    /\ last.sent <= IF last.op = "validate" THEN Cardinality(Range(RequestList)) ELSE 1
    /\ \A response \in Responses :
        ~ENABLED ( /\ Get({response}) \/ RoundTrip(response)
                  /\ last'.sent > 1 )
    /\ \A response \in CreateResponses :
        ~ENABLED ( /\ Create(ValidCreate[1], ValidCreate[2], {response})
                  /\ last'.sent > 1 )
    /\ \A response \in MemberResponses :
        ~ENABLED ( /\ \/ Add(<<"members", "USER">>, "akkornel", {response})
                     \/ Discard(<<"members", "USER">>, "akkornel", {response})
                  /\ last'.sent > 1 )
    /\ \A response \in SearchResponses(NameSearchJsons) :
        ~ENABLED ( /\ SearchByName(ValidSearch, {response})
                  /\ last'.sent > 1 )
    /\ \A response \in SearchResponses(TargetSearchJsons) :
        ~ENABLED ( /\ \/ SearchByUser(ValidSearch, {response})
                     \/ SearchByCertificate(ValidSearch, {response})
                     \/ SearchByWorkgroup(ValidSearch, {response})
                  /\ last'.sent > 1 )
    /\ \A response \in ChangedResponses :
        ~ENABLED ( /\ GetChangedStatus({}, 30, "active", TRUE, {response})
                  /\ last'.sent > 1 )
    /\ \A i \in 1..Len(RequestList) : \A fault \in Faults({<<"fullprsn">>}) :
        ~ENABLED ( /\ AccountGet({}, RequestList[i], fault)
                  /\ last'.sent > 1 )
    /\ \A raw \in CountedLists :
       \A order \in Orders(Range(raw)) : \A fault \in Faults({<<"fullprsn">>}) :
        ~ENABLED ( /\ Validate("list", raw, order, fault)
                  /\ last'.sent > Cardinality(Range(raw)) )

\* C33 witness: the caller holds a Workgroup, and a validate() of three
\* candidates was answered 500 at its first lookup and raised after that one
\* request.
C33_Witness ==
    /\ owner = "live"
    /\ last.op = "validate"
    /\ last.outcome = "ChildProcessError"
    /\ last.sent = 1

----------------------------------------------------------------------------
(* Properties of deleted instances *)

\* C35: in every state, get('test:1') cannot return an instance whose deleted
\* flag is true; and while the caller holds a Workgroup marked deleted that the
\* cache refers to, `'test:1' in client` cannot answer True.
C35_DeletedNotServed ==
    /\ ~ENABLED ( /\ Get(Responses)
                 /\ last'.outcome = "ok"
                 /\ wg'.deleted )
    /\ (owner = "live" /\ wg.deleted /\ wcache = wg.ref) =>
        ~ENABLED ( /\ WorkgroupContains(Responses)
                  /\ last'.outcome = "True" )

\* C36: once the Workgroup the caller holds is marked deleted, an add or a
\* discard on one of its containers sends no request, and in every state of a
\* deleted Workgroup all six containers are empty.
C36_DeletedContainersInert ==
    /\ (owner = "live" /\ wg.deleted) => identifiers = EmptyContainers
    /\ (owner = "live" /\ wg.deleted) =>
        \A container \in Containers : \A value \in Values(container[2]) :
            ~ENABLED ( /\ \/ Add(container, value, MemberResponses)
                          \/ Discard(container, value, MemberResponses)
                      /\ \/ last'.sent > 0
                         \/ identifiers' # EmptyContainers )

----------------------------------------------------------------------------
(* Properties of can_see_membership under changes of the membership *)

\* C37 as stated: can_see_membership of a Workgroup that is not deleted is true
\* exactly when its local administrators (people, workgroups and certificates
\* together) are not empty, also after add, discard and remove.
C37_FollowsLocalAdministrators ==
    (owner = "live" /\ ~wg.deleted) =>
        (wg.can_see_membership <=> LenAdministrators(identifiers) > 0)

\* C37 as the code has it: after every step, can_see_membership of a Workgroup
\* that is not deleted is true exactly when the administrators of the JSON the
\* instance was last derived from are not empty, and add, discard and remove
\* leave it as it was.
C37_FollowsLastResponse ==
    [][ /\ (owner' = "live" /\ ~wg'.deleted) =>
            (wg'.can_see_membership <=> wfrom'.administrators # {})
        /\ last'.op \in {"add", "discard", "remove"} =>
            wg'.can_see_membership = wg.can_see_membership ]_vars

\* C37 witness: an administrator was added, with success, to a Workgroup whose
\* server response listed none; the local administrators are not empty and
\* can_see_membership is still false.
C37_Witness ==
    /\ owner = "live" /\ ~wg.deleted
    /\ last.op = "add" /\ last.outcome = "ok"
    /\ wfrom.administrators = {}
    /\ LenAdministrators(identifiers) > 0
    /\ ~wg.can_see_membership

----------------------------------------------------------------------------
(* Properties of a failed round trip *)

\* C38: a refresh, a property setter or a delete that sent its request and was
\* answered with a failure other than the inactive marker (401, 403, 404, 500,
\* a 400 without the marker, a status the code does not know) leaves every
\* field of the instance, the deleted flag and last_refresh among them, and
\* all six containers as they were.
C38_FailureChangesNothing ==
    [][ ( /\ last'.op \in SetterOps \cup {"refresh", "delete"}
          /\ last'.sent = 1
          /\ last'.status # 200
          /\ last'.outcome # "WorkgroupDeleted" )
        => ( /\ wg' = wg
             /\ identifiers' = identifiers
             /\ owner' = owner ) ]_vars

\* C38 witness: a setter of a Workgroup that has members was answered 400
\* without the marker and raised ChildProcessError; the Workgroup is not
\* deleted and still has its members.
C38_Witness ==
    /\ owner = "live" /\ ~wg.deleted
    /\ last.op = "set_filter" /\ last.sent = 1
    /\ last.status = 400 /\ last.outcome = "ChildProcessError"
    /\ identifiers # EmptyContainers

----------------------------------------------------------------------------
(* Properties of a lookup a view rejects *)

\* C39: with the cache as it is in any state, a get() through a view that
\* fetches the account from the server and raises KeyError because a filter
\* rejects it has put the account in the shared cache, and a get() of the same
\* identifier through the client without filters that follows returns that
\* account and sends nothing, whatever the server would answer; a get() that is
\* answered 404 leaves the cache as it was.
C39_RejectedIsCached ==
    \A filters \in Views : \A sunetid \in AccountIds :
    \A got \in {AccountClient_get(filters, acache, sunetid, NoFault)} :
        /\ (got.sent = 1 /\ got.status = 200 /\ got.outcome = "KeyError") =>
                /\ sunetid \in DOMAIN got.cache
                /\ \E f \in filters : ~Passes(f, got.cache[sunetid])
                /\ \A fault \in Faults({sunetid}) :
                   \A again \in {AccountClient_get({}, got.cache, sunetid, fault)} :
                        /\ again.sent = 0
                        /\ again.outcome = "ok"
                        /\ again.account = got.cache[sunetid]
                        /\ again.cache = got.cache
        /\ got.status = 404 =>
                /\ got.outcome = "KeyError"
                /\ got.cache = acache

\* C39 witness: a get() through a view fetched an inactive person and raised
\* KeyError; the account is in the cache and the caller never got it.
C39_Witness ==
    /\ last.op = "account_get" /\ last.outcome = "KeyError"
    /\ last.sent = 1 /\ last.status = 200
    /\ <<"formerpsn">> \in DOMAIN acache
    /\ <<"formerpsn">> \notin DOMAIN agot

====
